---- MODULE Spec2Model ----
(***************************************************************************)
(* Model of the AirBnbAnalyzer metrics layer: the price normaliser of      *)
(* utils/data_loader.py, the analysis functions of analytics/analysis.py   *)
(* and the views of airbnb_host_advisor.py that compute rates, price bands *)
(* and amenity comparisons.                                                *)
(*                                                                         *)
(* A pandas table is a record [none, cols, n, col]: the ordered column     *)
(* names, the row count and, per column, the sequence of its cells.  A     *)
(* cell is a record [t, v] whose tag t is the Python type of the value.    *)
(* Floating point results are kept exact: a rate is the pair [num, den]    *)
(* standing for num/den, and den = 0 stands for the NaN that numpy yields  *)
(* for 0/0.  Quartiles are kept multiplied by 4.                           *)
(***************************************************************************)
EXTENDS Integers, Sequences, FiniteSets, TLC

VARIABLES disk, uploaded_files, cache,
          df, date_cols, price_cols, listings_df, calendar_df, reviews_df,
          op, args, result, prev, calls

vars == <<disk, uploaded_files, cache,
          df, date_cols, price_cols, listings_df, calendar_df, reviews_df,
          op, args, result, prev, calls>>

---------------------------------------------------------------------------
(* Bounds of the model *)

MaxStrLen == 3
MaxRows == 2
MaxListings == 2
MaxCalls == 2

---------------------------------------------------------------------------
(* Cells *)

IntCell(n) == [t |-> "int", v |-> n]
Num(n) == [t |-> "num", v |-> n]
Str(s) == [t |-> "str", v |-> s]
Label(s) == [t |-> "label", v |-> s]
DStr(y, m, d) == [t |-> "dstr", v |-> <<y, m, d>>]
Ts(days, ns) == [t |-> "ts", v |-> <<days, ns>>]
NaN == [t |-> "nan", v |-> 0]
NoneCell == [t |-> "none", v |-> 0]
NaT == [t |-> "nat", v |-> 0]
ObjCell == [t |-> "obj", v |-> 0]

Range(s) == {s[i] : i \in 1..Len(s)}

RECURSIVE SeqsUpTo(_, _)
SeqsUpTo(S, k) ==
    IF k = 0 THEN {<<>>}
    ELSE LET shorter == SeqsUpTo(S, k - 1)
         IN  shorter \cup {Append(s, x) : s \in {q \in shorter : Len(q) = k - 1}, x \in S}

RECURSIVE SumSeq(_)
SumSeq(s) == IF s = <<>> THEN 0 ELSE s[1] + SumSeq(Tail(s))

CountIf(s, P(_)) == Cardinality({i \in 1..Len(s) : P(s[i])})

---------------------------------------------------------------------------
(* Tables *)

NoneDF == [none |-> TRUE, cols |-> <<>>, n |-> 0, col |-> <<>>]

HasCol(t, c) == c \in Range(t.cols)

IsEmpty(t) == t.n = 0 \/ t.cols = <<>>

SetCol(t, c, vals) ==
    [t EXCEPT !.cols = IF HasCol(t, c) THEN t.cols ELSE Append(t.cols, c),
              !.col = [k \in Range(t.cols) \cup {c} |-> IF k = c THEN vals ELSE t.col[k]]]

MapCol(t, c, F(_)) == [i \in 1..t.n |-> F(t.col[c][i])]

\* the table of the given columns and rows, each row a record of its cells
Table(cs, rows) ==
    [none |-> FALSE, cols |-> cs, n |-> Len(rows),
     col |-> [k \in Range(cs) |-> [i \in 1..Len(rows) |-> rows[i][k]]]]

---------------------------------------------------------------------------
(* Outcomes of a call: a value, the absence value None, or a fault *)

Value(v) == [kind |-> "value", val |-> v]
NoneResult == [kind |-> "None", val |-> <<>>]
Fault(e) == [kind |-> "fault", val |-> e]
NoCall == [kind |-> "nocall", val |-> <<>>]

---------------------------------------------------------------------------
(* Price normalisation: utils/data_loader.py clean_price_data, duplicated  *)
(* in airbnb_host_advisor.py.  Strings are sequences of characters.        *)

Chars == {"$", ",", "1", "0", "-", "x"}
Digits == {"0", "1"}
DigitVal(c) == IF c = "1" THEN 1 ELSE 0

\* str.replace(old, ''): every occurrence of the character is removed
Replace(s, old) == SelectSeq(s, LAMBDA c : c # old)

RECURSIVE DecimalValue(_)
DecimalValue(s) ==
    IF s = <<>> THEN 0 ELSE 10 * DecimalValue(SubSeq(s, 1, Len(s) - 1)) + DigitVal(s[Len(s)])

IsDigits(s) == s # <<>> /\ \A i \in 1..Len(s) : s[i] \in Digits

\* float(str): an optional sign followed by digits, ValueError otherwise
PyFloat(s) ==
    IF IsDigits(s) THEN Value(Num(DecimalValue(s)))
    ELSE IF s # <<>> /\ s[1] = "-" /\ IsDigits(Tail(s)) THEN Value(Num(0 - DecimalValue(Tail(s))))
    ELSE Fault("ValueError")

\* pd.isna on a scalar cell
IsNA(c) == c.t \in {"nan", "none", "nat"}

\* the body of the try block of clean_price
clean_price_try(price) ==
    IF IsNA(price) THEN Value(NaN)
    ELSE IF price.t \in {"int", "num"} THEN Value(Num(price.v))
    ELSE IF price.t = "str" THEN PyFloat(Replace(Replace(price.v, "$"), ","))
    ELSE Value(NaN)

\* clean_price without its except clause
clean_price_noexcept(price) == clean_price_try(price)

clean_price(price) ==
    LET r == clean_price_try(price)
    IN  IF r.kind = "fault" THEN Value(NaN) ELSE r

\* Series.apply(clean_price): a fault of any cell is a fault of the call
ApplyCleanPrice(t, c) ==
    LET rs == [i \in 1..t.n |-> clean_price(t.col[c][i])]
    IN  IF \E i \in 1..t.n : rs[i].kind = "fault" THEN Fault("ValueError")
        ELSE Value([i \in 1..t.n |-> rs[i].val])

\* the table clean_price_data returns, and leaves in the caller's object
clean_price_data(t, price_col) ==
    IF ~HasCol(t, price_col) THEN Value(t)
    ELSE LET a == ApplyCleanPrice(t, price_col)
         IN  IF a.kind = "fault" THEN a
             ELSE Value(SetCol(t, price_col \o "_clean", a.val))

---------------------------------------------------------------------------
(* Dates.  A datetime64 value is the pair <<days since 1970-01-01,         *)
(* nanoseconds into the day>>; a date string 'YYYY-MM-DD' is the triple of *)
(* its fields.  pd.to_datetime and the .dt accessors convert between them. *)

DaysFromCivil(y, m, d) ==
    LET yy == IF m <= 2 THEN y - 1 ELSE y
        era == yy \div 400
        yoe == yy - era * 400
        mp == IF m > 2 THEN m - 3 ELSE m + 9
        doy == (153 * mp + 2) \div 5 + d - 1
        doe == yoe * 365 + yoe \div 4 - yoe \div 100 + doy
    IN  era * 146097 + doe - 719468

CivilFromDays(z) ==
    LET zz == z + 719468
        era == zz \div 146097
        doe == zz - era * 146097
        yoe == (doe - doe \div 1460 + doe \div 36524 - doe \div 146096) \div 365
        doy == doe - (365 * yoe + yoe \div 4 - yoe \div 100)
        mp == (5 * doy + 2) \div 153
        d == doy - (153 * mp + 2) \div 5 + 1
        m == IF mp < 10 THEN mp + 3 ELSE mp - 9
        y == yoe + era * 400 + (IF m <= 2 THEN 1 ELSE 0)
    IN  [year |-> y, month |-> m, day |-> d]

DayNames == <<"Monday", "Tuesday", "Wednesday", "Thursday", "Friday", "Saturday", "Sunday">>

\* pd.to_datetime of one cell; an integer is a count of nanoseconds since
\* the epoch, which for every integer of the model lies on 1970-01-01
to_datetime(c) ==
    IF c.t = "dstr" THEN Value(Ts(DaysFromCivil(c.v[1], c.v[2], c.v[3]), 0))
    ELSE IF c.t = "ts" THEN Value(c)
    ELSE IF IsNA(c) THEN Value(NaT)
    ELSE IF c.t \in {"int", "num"} THEN Value(Ts(0, c.v))
    ELSE Fault("ValueError")

\* pd.to_datetime of a column: it raises when one cell cannot be parsed
ToDatetimeCol(t, c) ==
    LET rs == [i \in 1..t.n |-> to_datetime(t.col[c][i])]
    IN  IF \E i \in 1..t.n : rs[i].kind = "fault" THEN Fault("ValueError")
        ELSE Value([i \in 1..t.n |-> rs[i].val])

\* the .dt accessors; NaT gives NaN
\* the weekday counted from Sunday: every name is one day late
dt_day_name_from_sunday(c) == IF c.t = "ts" THEN Label(DayNames[((c.v[1] + 4) % 7) + 1]) ELSE NaN
dt_day_name(c) == IF c.t = "ts" THEN Label(DayNames[((c.v[1] + 3) % 7) + 1]) ELSE NaN
dt_month(c) == IF c.t = "ts" THEN Num(CivilFromDays(c.v[1]).month) ELSE NaN
\* the grouping by month number alone: every date falls in one year
dt_year_ignored(c) == IF c.t = "ts" THEN Num(2024) ELSE NaN
dt_year(c) == IF c.t = "ts" THEN Num(CivilFromDays(c.v[1]).year) ELSE NaN
dt_day(c) == IF c.t = "ts" THEN Num(CivilFromDays(c.v[1]).day) ELSE NaN
dt_quarter(c) == IF c.t = "ts" THEN Num(((CivilFromDays(c.v[1]).month - 1) \div 3) + 1) ELSE NaN


---------------------------------------------------------------------------
(* Aggregation primitives of pandas used by the analysis functions         *)

\* a rate a / b * 100 kept exact; b = 0 gives the NaN of a numpy division
Pct(a, b) == [num |-> a * 100, den |-> b]
Zero == [num |-> 0, den |-> 1]

\* the count taken as the complement of the other flag: a missing flag counts
CountEqOrMissing(t, c, x) == Cardinality({i \in 1..t.n : t.col[c][i] = x \/ IsNA(t.col[c][i])})

\* (column == value).sum()
CountEq(t, c, x) == Cardinality({i \in 1..t.n : t.col[c][i] = x})

\* rows selected by a boolean mask, as the sequence of their cells in column c
Masked(t, c, mask(_)) ==
    LET idx == {i \in 1..t.n : mask(i)}
        RECURSIVE Take(_)
        Take(i) == IF i > t.n THEN <<>>
                   ELSE IF i \in idx THEN <<t.col[c][i]>> \o Take(i + 1)
                   ELSE Take(i + 1)
    IN  Take(1)

\* groupby(key).size(): one entry per key present, missing keys are dropped
GroupSize(keys) ==
    [k \in {keys[i] : i \in {j \in 1..Len(keys) : ~IsNA(keys[j])}} |->
        Cardinality({i \in 1..Len(keys) : keys[i] = k})]

\* Series.reindex(order): the value of each key of order, NaN when absent
Reindex(g, order) ==
    [i \in 1..Len(order) |->
        [key |-> order[i], val |-> IF order[i] \in DOMAIN g THEN Num(g[order[i]]) ELSE NaN]]

\* the same without the call of fillna
NoFillNa(s) == s

\* Series.fillna(0)
FillNa0(s) == [i \in 1..Len(s) |-> [s[i] EXCEPT !.val = IF IsNA(@) THEN Num(0) ELSE @]]

\* Series.idxmax / idxmin: the first key holding the extreme value
IdxMax(s) == s[CHOOSE i \in 1..Len(s) :
                 /\ \A j \in 1..Len(s) : s[j].val.v <= s[i].val.v
                 /\ \A j \in 1..(i - 1) : s[j].val.v < s[i].val.v].key
IdxMin(s) == s[CHOOSE i \in 1..Len(s) :
                 /\ \A j \in 1..Len(s) : s[j].val.v >= s[i].val.v
                 /\ \A j \in 1..(i - 1) : s[j].val.v > s[i].val.v].key
ValOf(s, k) == (s[CHOOSE i \in 1..Len(s) : s[i].key = k]).val.v

\* pd.cut(x, bins, labels, include_lowest): the label of the right-closed
\* interval (bins[i], bins[i+1]] holding x, NaN when no interval holds it
Inf == 1000000
Cut(x, bins, labels, include_lowest) ==
    IF IsNA(x) THEN NaN
    ELSE LET hit == {i \in 1..(Len(bins) - 1) :
                        \/ bins[i] < x.v /\ x.v <= bins[i + 1]
                        \/ include_lowest /\ i = 1 /\ x.v = bins[1]}
         IN  IF hit = {} THEN NaN ELSE Label(labels[CHOOSE i \in hit : TRUE])

\* value_counts() of a categorical column: every label, with its count
CategoryCounts(cats, labels) ==
    [l \in Range(labels) |-> Cardinality({i \in 1..Len(cats) : cats[i] = Label(l)})]


---------------------------------------------------------------------------
(* analytics/analysis.py analyze_copenhagen_occupancy.  The operator gives *)
(* the outcome of the call and the calendar table as the call leaves it:   *)
(* the derived columns are written into the caller's table, and those      *)
(* written before a fault stay written.                                    *)

Flag(x) == Str(<<x>>)
DayKeys == [i \in 1..7 |-> Label(DayNames[i])]
DayOfMonthKeys == [i \in 1..31 |-> Num(i)]

AvailabilityBins == <<0, 30, 90, 180, 365>>
AvailabilityLabels == <<"Very Low (0-30 days)", "Low (31-90 days)", "Medium (91-180 days)", "High (181-365 days)">>
HighAvailability == 300
LowAvailability == 30

\* rows of a table selected by available == 'f', grouped by two key columns
GroupSize2(t, c1, c2, booked(_)) ==
    LET rows == {i \in 1..t.n : booked(i) /\ ~IsNA(t.col[c1][i]) /\ ~IsNA(t.col[c2][i])}
    IN  {[k1 |-> t.col[c1][i].v, k2 |-> t.col[c2][i].v,
          booked_days |-> Cardinality({j \in rows : t.col[c1][j] = t.col[c1][i] /\ t.col[c2][j] = t.col[c2][i]})]
            : i \in rows}

\* len(listings_df[listings_df['availability_365'] > k])
CountMoreThan(a, k) == Cardinality({i \in 1..Len(a) : ~IsNA(a[i]) /\ a[i].v > k})

\* len(listings_df[listings_df['availability_365'] >= k]): NaN compares false
CountAtLeast(a, k) == Cardinality({i \in 1..Len(a) : ~IsNA(a[i]) /\ a[i].v >= k})

\* len(listings_df[listings_df['availability_365'] <= k])
CountAtMost(a, k) == Cardinality({i \in 1..Len(a) : ~IsNA(a[i]) /\ a[i].v <= k})

\* lines 224-274: the availability_365 analysis of the listings table
availability_analysis(lst) ==
    IF lst.none \/ ~HasCol(lst, "availability_365") THEN <<>>
    ELSE LET a == lst.col["availability_365"]
             present == {i \in 1..lst.n : ~IsNA(a[i])}
             cats == [i \in 1..lst.n |-> Cut(a[i], AvailabilityBins, AvailabilityLabels, FALSE)]
             high == CountAtLeast(a, HighAvailability)
             low == CountAtMost(a, LowAvailability)
         IN  [count |-> Cardinality(present),
              distribution |-> CategoryCounts(cats, AvailabilityLabels),
              high_availability_count |-> high,
              high_availability_pct |-> IF lst.n > 0 THEN Pct(high, lst.n) ELSE Zero,
              low_availability_count |-> low,
              low_availability_pct |-> IF lst.n > 0 THEN Pct(low, lst.n) ELSE Zero,
              total_listings |-> lst.n]

\* lines 182-222 and 276-294, on a calendar that has the derived columns
occupancy_result(c, lst) ==
    LET booked(i) == c.col["available"][i] = Flag("f")
        total_days == c.n
        booked_days == CountEq(c, "available", Flag("f"))
        available_days == CountEq(c, "available", Flag("t"))
        dow == FillNa0(Reindex(GroupSize(Masked(c, "day_of_week", booked)), DayKeys))
        dom == FillNa0(Reindex(GroupSize(Masked(c, "day_of_month", booked)), DayOfMonthKeys))
        monthly == {[year |-> g.k1, month |-> g.k2, booked_days |-> g.booked_days,
                     date |-> Ts(DaysFromCivil(g.k1, g.k2, 1), 0)] : g \in GroupSize2(c, "year", "month", booked)}
        weekend == ValOf(dow, Label("Saturday")) + ValOf(dow, Label("Sunday"))
        weekday == ValOf(dow, Label("Monday")) + ValOf(dow, Label("Tuesday")) + ValOf(dow, Label("Wednesday"))
                       + ValOf(dow, Label("Thursday")) + ValOf(dow, Label("Friday"))
        q == SetCol(c, "quarter", MapCol(c, "date", dt_quarter))
        quarterly == {[year |-> g.k1, quarter |-> g.k2, booked_days |-> g.booked_days]
                         : g \in GroupSize2(q, "year", "quarter", booked)}
    IN  [out |-> Value([total_days |-> total_days,
                        booked_days |-> booked_days,
                        available_days |-> available_days,
                        occupancy_rate |-> IF total_days > 0 THEN Pct(booked_days, total_days) ELSE Zero,
                        dow_occupancy |-> dow,
                        monthly_occupancy |-> monthly,
                        day_of_month_occupancy |-> dom,
                        quarterly_occupancy |-> quarterly,
                        peak_day |-> IdxMax(dow),
                        peak_bookings |-> ValOf(dow, IdxMax(dow)),
                        low_day |-> IdxMin(dow),
                        low_bookings |-> ValOf(dow, IdxMin(dow)),
                        weekend_bookings |-> weekend,
                        weekday_bookings |-> weekday,
                        weekend_pct |-> IF booked_days > 0 THEN Pct(weekend, booked_days) ELSE Zero,
                        weekday_pct |-> IF booked_days > 0 THEN Pct(weekday, booked_days) ELSE Zero,
                        availability_analysis |-> availability_analysis(lst)]),
         cal |-> q]

\* lines 176-180: the derived columns, read from calendar_df['date']
derive_columns(c) ==
    SetCol(SetCol(SetCol(SetCol(c,
        "day_of_week", MapCol(c, "date", dt_day_name)),
        "month", MapCol(c, "date", dt_month)),
        "year", MapCol(c, "date", dt_year)),
        "day_of_month", MapCol(c, "date", dt_day))

analyze_copenhagen_occupancy(cal, lst) ==
    IF cal.none \/ IsEmpty(cal) THEN [out |-> NoneResult, cal |-> cal]
    ELSE LET conv == IF HasCol(cal, "date") THEN ToDatetimeCol(cal, "date") ELSE Value(<<>>)
         IN  IF conv.kind = "fault" THEN [out |-> conv, cal |-> cal]
             ELSE IF ~HasCol(cal, "date") THEN [out |-> Fault("KeyError"), cal |-> cal]
             ELSE LET c1 == derive_columns(SetCol(cal, "date", conv.val))
                  IN  IF ~HasCol(c1, "available") THEN [out |-> Fault("KeyError"), cal |-> c1]
                      ELSE occupancy_result(c1, lst)


---------------------------------------------------------------------------
(* Column sniffing: 'price' in col.lower() and the like, over the column   *)
(* names that occur in the model                                           *)

NamesWith(sub) ==
    IF sub = "price" THEN {"price", "price_clean"}
    ELSE IF sub = "price_clean" THEN {"price_clean"}
    ELSE IF sub = "amenities" THEN {"amenities"}
    ELSE {}

\* [col for col in t.columns if sub in col.lower()]
ColsWith(t, sub) == SelectSeq(t.cols, LAMBDA c : c \in NamesWith(sub))

\* Series.dropna(), as the sequence of the numbers left
DropNa(cells) == SelectSeq(cells, LAMBDA c : ~IsNA(c))
Values(cells) == [i \in 1..Len(cells) |-> cells[i].v]

\* Series.mean() of a non-empty series, exact
Mean(xs) == [num |-> SumSeq(xs), den |-> Len(xs)]

\* Series.nunique()
NUnique(cells) == Cardinality({cells[i] : i \in {j \in 1..Len(cells) : ~IsNA(cells[j])}})

\* pd.to_numeric(col.str.replace('$', '').str.replace(',', ''), errors='coerce'):
\* the .str accessor raises on a column that holds no string
ToNumericCol(t, c) ==
    IF t.n > 0 /\ \A i \in 1..t.n : t.col[c][i].t # "str" THEN Fault("AttributeError")
    ELSE Value([i \in 1..t.n |->
                   IF t.col[c][i].t # "str" THEN NaN
                   ELSE LET r == PyFloat(Replace(Replace(t.col[c][i].v, "$"), ","))
                        IN  IF r.kind = "fault" THEN NaN ELSE r.val])

---------------------------------------------------------------------------
(* analytics/analysis.py analyze_city_market                               *)

\* lines 134-155: the basic calendar statistics
calendar_basic_stats(cal) ==
    LET total_days == cal.n
        available_days == CountEq(cal, "available", Flag("t"))
        booked_days == CountEq(cal, "available", Flag("f"))
    IN  [total_days |-> total_days,
         available_days |-> available_days,
         booked_days |-> booked_days,
         availability_rate |-> IF total_days > 0 THEN Pct(available_days, total_days) ELSE Zero,
         occupancy_rate |-> IF total_days > 0 THEN Pct(booked_days, total_days) ELSE Zero]

\* lines 103-114
price_stats(lst, pcs) ==
    IF pcs # <<>> /\ HasCol(lst, pcs[1] \o "_clean")
    THEN LET price_data == Values(DropNa(lst.col[pcs[1] \o "_clean"]))
         IN  IF Len(price_data) > 0
             THEN [avg_price |-> Mean(price_data),
                   min_price |-> CHOOSE x \in Range(price_data) : \A y \in Range(price_data) : x <= y,
                   max_price |-> CHOOSE x \in Range(price_data) : \A y \in Range(price_data) : x >= y,
                   price_distribution |-> price_data]
             ELSE <<>>
    ELSE <<>>

\* lines 116-132: groupby(key).agg({'id': 'count', price: [...]})
group_stats(lst, key, pcs) ==
    {[group |-> lst.col[key][i],
      listings |-> Cardinality({j \in 1..lst.n : lst.col[key][j] = lst.col[key][i] /\ ~IsNA(lst.col["id"][j])}),
      price_count |-> Cardinality({j \in 1..lst.n : lst.col[key][j] = lst.col[key][i]
                                                    /\ ~IsNA(lst.col[pcs[1] \o "_clean"][j])})]
        : i \in {j \in 1..lst.n : ~IsNA(lst.col[key][j])}}

analyze_city_market(lst0, cal) ==
    IF lst0.none THEN [out |-> NoneResult, lst |-> lst0]
    ELSE LET pcs == ColsWith(lst0, "price")
             cleaned == IF pcs # <<>> THEN clean_price_data(lst0, pcs[1]) ELSE Value(lst0)
             lst == cleaned.val
             grouped(key) == HasCol(lst, key) /\ pcs # <<>>
         IN  IF cleaned.kind = "fault" THEN [out |-> cleaned, lst |-> lst0]
             ELSE IF (grouped("neighbourhood") \/ grouped("room_type")) /\ ~HasCol(lst, "id")
                  THEN [out |-> Fault("KeyError"), lst |-> lst]
             ELSE IF ~cal.none /\ HasCol(cal, "available") /\ ~HasCol(cal, "listing_id")
                  THEN [out |-> Fault("KeyError"), lst |-> lst]
             ELSE [out |-> Value(
                      [total_listings |-> lst.n,
                       neighbourhoods |-> IF HasCol(lst, "neighbourhood") THEN NUnique(lst.col["neighbourhood"]) ELSE 0,
                       room_types |-> IF HasCol(lst, "room_type") THEN NUnique(lst.col["room_type"]) ELSE 0,
                       price_stats |-> price_stats(lst, pcs),
                       neighbourhood_stats |-> IF grouped("neighbourhood") THEN group_stats(lst, "neighbourhood", pcs) ELSE {},
                       room_type_stats |-> IF grouped("room_type") THEN group_stats(lst, "room_type", pcs) ELSE {},
                       calendar_analysis |->
                           IF ~cal.none /\ HasCol(cal, "available")
                           THEN [basic_stats |-> calendar_basic_stats(cal),
                                 metadata |-> [unique_listings |-> NUnique(cal.col["listing_id"])]]
                           ELSE <<>>]),
                   lst |-> lst]


---------------------------------------------------------------------------
(* airbnb_host_advisor.py show_main_dashboard: the metrics it computes     *)

show_main_dashboard(lst, cal) ==
    LET pcs == ColsWith(lst, "price_clean")
        price_data == IF pcs # <<>> THEN Values(DropNa(lst.col[pcs[1]])) ELSE <<>>
        has_calendar == ~cal.none /\ HasCol(cal, "available")
    IN  Value([total_listings |-> lst.n,
               has_price |-> Len(price_data) > 0,
               market_avg_price |-> IF Len(price_data) > 0 THEN Mean(price_data) ELSE Zero,
               has_occupancy |-> has_calendar,
               occupancy_rate |-> IF has_calendar
                                  THEN (IF cal.n > 0 THEN Pct(CountEq(cal, "available", Flag("f")), cal.n) ELSE Zero)
                                  ELSE Zero,
               total_days |-> IF has_calendar THEN cal.n ELSE 0])

---------------------------------------------------------------------------
(* airbnb_host_advisor.py show_occupancy_analysis.  The view writes the    *)
(* converted date and the month, season and cleaned price columns into the *)
(* caller's calendar.                                                      *)

Season(m) ==
    IF IsNA(m) THEN NaN
    ELSE IF m.v \in {12, 1, 2} THEN Label("Winter")
    ELSE IF m.v \in {3, 4, 5} THEN Label("Spring")
    ELSE IF m.v \in {6, 7, 8} THEN Label("Summer")
    ELSE Label("Fall")

\* line 826: no guard on total_days
overall_occupancy_rate(cal) == Pct(CountEq(cal, "available", Flag("f")), cal.n)

\* lines 857-859 and 873-875: groupby(key)['available'].apply(rate)
rate_by(cal, key) ==
    {[group |-> cal.col[key][i],
      rate |-> Pct(Cardinality({j \in 1..cal.n : cal.col[key][j] = cal.col[key][i] /\ cal.col["available"][j] = Flag("f")}),
                   Cardinality({j \in 1..cal.n : cal.col[key][j] = cal.col[key][i]}))]
        : i \in {j \in 1..cal.n : ~IsNA(cal.col[key][j])}}

\* lines 904-956: booked against available prices
price_comparison(cal, clean) ==
    LET booked == Values(DropNa(Masked(cal, clean, LAMBDA i : cal.col["available"][i] = Flag("f"))))
        avail == Values(DropNa(Masked(cal, clean, LAMBDA i : cal.col["available"][i] = Flag("t"))))
    IN  IF Len(booked) > 0 /\ Len(avail) > 0
        THEN [compared |-> TRUE,
              price_diff |-> [num |-> SumSeq(booked) * Len(avail) - SumSeq(avail) * Len(booked),
                              den |-> Len(booked) * Len(avail)],
              price_diff_pct |-> [num |-> (SumSeq(booked) * Len(avail) - SumSeq(avail) * Len(booked)) * 100,
                                  den |-> Len(booked) * SumSeq(avail)]]
        ELSE [compared |-> FALSE, price_diff |-> Zero, price_diff_pct |-> Zero]

occupancy_view(c1) ==
    IF ~HasCol(c1, "available") THEN [out |-> Value(<<>>), cal |-> c1]
    ELSE IF ~HasCol(c1, "season") THEN [out |-> Fault("KeyError"), cal |-> c1]
    ELSE IF rate_by(c1, "season") = {} THEN [out |-> Fault("ValueError"), cal |-> c1]
    ELSE LET pcs == ColsWith(c1, "price")
             num == IF pcs # <<>> THEN ToNumericCol(c1, pcs[1]) ELSE Value(<<>>)
             c2 == IF pcs # <<>> /\ num.kind = "value" THEN SetCol(c1, pcs[1] \o "_clean", num.val) ELSE c1
         IN  IF num.kind = "fault" THEN [out |-> num, cal |-> c1]
             ELSE [out |-> Value([total_days |-> c1.n,
                                  booked_days |-> CountEq(c1, "available", Flag("f")),
                                  available_days |-> CountEq(c1, "available", Flag("t")),
                                  overall_occupancy_rate |-> overall_occupancy_rate(c1),
                                  seasonal_occupancy |-> rate_by(c1, "season"),
                                  monthly_occupancy |-> rate_by(c1, "month"),
                                  prices |-> IF pcs # <<>> THEN price_comparison(c2, pcs[1] \o "_clean")
                                             ELSE [compared |-> FALSE, price_diff |-> Zero, price_diff_pct |-> Zero]]),
                   cal |-> c2]

show_occupancy_analysis(lst, cal) ==
    IF cal.none THEN [out |-> NoneResult, cal |-> cal]
    ELSE LET conv == IF HasCol(cal, "date") THEN ToDatetimeCol(cal, "date") ELSE Value(<<>>)
         IN  IF conv.kind = "fault" THEN [out |-> conv, cal |-> cal]
             ELSE IF ~HasCol(cal, "date") THEN occupancy_view(cal)
             ELSE LET d == SetCol(cal, "date", conv.val)
                      m == SetCol(d, "month", MapCol(d, "date", dt_month))
                  IN  occupancy_view(SetCol(m, "season", MapCol(m, "month", Season)))


---------------------------------------------------------------------------
(* airbnb_host_advisor.py show_optimal_pricing and                         *)
(* show_price_recommendations: the filters, the quartiles and the four     *)
(* price bands.  Quartiles are kept multiplied by 4, which makes the       *)
(* linear interpolation of Series.quantile exact.                          *)

\* the input order, where quantile needs the sorted order
Unsorted(xs) == xs

\* the order statistics Series.quantile interpolates between
Sorted(xs) == SortSeq(xs, LAMBDA a, b : a < b)

\* 4 * Series.quantile(k / 4), linear interpolation between the neighbours
Quantile4(xs, k) ==
    LET srt == Sorted(xs)
        n == Len(srt)
        lo == ((n - 1) * k) \div 4
        frac == ((n - 1) * k) % 4
        hi == IF lo + 1 < n THEN lo + 1 ELSE lo
    IN  4 * srt[lo + 1] + (srt[hi + 1] - srt[lo + 1]) * frac

Min(xs) == CHOOSE x \in Range(xs) : \A y \in Range(xs) : x <= y
Max(xs) == CHOOSE x \in Range(xs) : \A y \in Range(xs) : x >= y

\* f"{x:.0f}" of x = x4 / 4: rounding to the nearest integer, ties to even
Format0(x4) ==
    LET q == x4 \div 4
        r == x4 % 4
    IN  IF r < 2 THEN q
        ELSE IF r > 2 THEN q + 1
        ELSE IF q % 2 = 0 THEN q ELSE q + 1

\* the options of a filter selectbox: 'All' and the values of the column
FilterOptions(lst, c) ==
    IF HasCol(lst, c) THEN {Label("All")} \cup Range(lst.col[c]) ELSE {Label("All")}

\* lines 565-572: the rows left by the two exact-match filters
FilteredRows(lst, nb, rt) ==
    {i \in 1..lst.n : /\ nb # Label("All") => lst.col["neighbourhood"][i] = nb
                      /\ rt # Label("All") => lst.col["room_type"][i] = rt}

\* lines 574-635 and 1783-1836
price_bands(lst, nb, rt) ==
    LET rows == FilteredRows(lst, nb, rt)
        pcs == ColsWith(lst, "price_clean")
        price_data == IF pcs = <<>> THEN <<>>
                      ELSE Values(DropNa(Masked(lst, pcs[1], LAMBDA i : i \in rows)))
    IN  IF pcs # <<>> /\ rows # {} /\ Len(price_data) > 0
        THEN LET q25 == Quantile4(price_data, 1)
                 q50 == Quantile4(price_data, 2)
                 q75 == Quantile4(price_data, 3)
             IN  Value([selected_neighbourhood |-> nb, selected_room_type |-> rt, shown |-> TRUE,
                        min_price |-> Min(price_data), max_price |-> Max(price_data),
                        avg_price |-> Mean(price_data),
                        q25 |-> q25, q50 |-> q50, q75 |-> q75,
                        Budget |-> <<Format0(4 * Min(price_data)), Format0(q25)>>,
                        Competitive |-> <<Format0(q25), Format0(q50)>>,
                        Premium |-> <<Format0(q50), Format0(q75)>>,
                        Luxury |-> <<Format0(q75), Format0(4 * Max(price_data))>>])
        ELSE Value([selected_neighbourhood |-> nb, selected_room_type |-> rt, shown |-> FALSE])

show_optimal_pricing(lst, nb, rt) == price_bands(lst, nb, rt)

show_price_recommendations(lst, nb, rt) == price_bands(lst, nb, rt)


---------------------------------------------------------------------------
(* airbnb_host_advisor.py extract_amenities and show_amenity_analysis.     *)
(* The result is the set of the rows of amenity_analysis; the view sorts   *)
(* them by 'Price Difference %' for display.                               *)

UpperCase == <<"A", "B", "C", "D", "E", "F", "G", "H", "I", "J", "K", "L", "M", "N", "O", "P", "Q", "R", "S", "T", "U", "V", "W", "X", "Y", "Z">>
LowerCase == <<"a", "b", "c", "d", "e", "f", "g", "h", "i", "j", "k", "l", "m", "n", "o", "p", "q", "r", "s", "t", "u", "v", "w", "x", "y", "z">>

\* str.lower() of one character
Lower(c) == IF \E i \in 1..26 : UpperCase[i] = c
            THEN LowerCase[CHOOSE i \in 1..26 : UpperCase[i] = c] ELSE c

LowerStr(s) == [i \in 1..Len(s) |-> Lower(s[i])]

\* Series.str.contains(pat, case=False, na=False) of one cell, for a
\* pattern without regular expression operators
Contains(c, pat) ==
    /\ c.t = "str"
    /\ \E k \in 0..(Len(c.v) - Len(pat)) :
           LowerStr(SubSeq(c.v, k + 1, k + Len(pat))) = LowerStr(pat)

key_amenities ==
    <<<<"W", "i", "F", "i">>,
      <<"K", "i", "t", "c", "h", "e", "n">>,
      <<"A", "i", "r", " ", "C", "o", "n", "d", "i", "t", "i", "o", "n", "i", "n", "g">>,
      <<"P", "o", "o", "l">>,
      <<"G", "y", "m">>,
      <<"P", "a", "r", "k", "i", "n", "g">>,
      <<"B", "a", "l", "c", "o", "n", "y">>>>

\* line 688 alone: the check of line 692 left out
HasMatches(with, without) == TRUE

\* line 692: both partitions hold a price
BothPartitions(with, without) == Len(with) > 0 /\ Len(without) > 0

\* extract_amenities: the number of distinct amenities is 0 exactly when no
\* cell of the first amenities column is a string
HasAmenityCounts(lst) ==
    /\ ColsWith(lst, "amenities") # <<>>
    /\ \E i \in 1..lst.n : lst.col[ColsWith(lst, "amenities")[1]][i].t = "str"

\* lines 684-703, for one amenity
amenity_rows(lst, price_col, amenities_col, amenity) ==
    LET has_amenity(i) == Contains(lst.col[amenities_col][i], amenity)
        with == Values(DropNa(Masked(lst, price_col, has_amenity)))
        without == Values(DropNa(Masked(lst, price_col, LAMBDA i : ~has_amenity(i))))
    IN  IF (\E i \in 1..lst.n : has_amenity(i)) /\ BothPartitions(with, without)
        THEN {[Amenity |-> amenity,
               WithAmenity |-> Mean(with),
               WithoutAmenity |-> Mean(without),
               PriceDifference |-> [num |-> SumSeq(with) * Len(without) - SumSeq(without) * Len(with),
                                    den |-> Len(with) * Len(without)],
               PriceDifferencePct |-> [num |-> (SumSeq(with) * Len(without) - SumSeq(without) * Len(with)) * 100,
                                       den |-> Len(with) * SumSeq(without)],
               ListingsWithAmenity |-> Len(with)]}
        ELSE {}

show_amenity_analysis(lst) ==
    LET price_cols_ == ColsWith(lst, "price_clean")
        amenities_cols == ColsWith(lst, "amenities")
    IN  IF HasAmenityCounts(lst) /\ price_cols_ # <<>> /\ amenities_cols # <<>>
        THEN Value(UNION {amenity_rows(lst, price_cols_[1], amenities_cols[1], key_amenities[k])
                             : k \in 1..Len(key_amenities)})
        ELSE Value({})


---------------------------------------------------------------------------
(* analytics/analysis.py analyze_occupancy, analyze_revenue and            *)
(* analyze_pricing, on the uploaded booking table                          *)

\* a column the .dt accessor accepts: datetime64 values, NaT included
IsDatetimeCol(t, c) == \A i \in 1..t.n : t.col[c][i].t \in {"ts", "nat"}

\* Series.value_counts(): one entry per value present
ValueCounts(cells) == GroupSize(cells)

\* lines 22-26: the columns analyze_occupancy writes into the caller's table
occupancy_columns(t, dates) ==
    LET d == SetCol(t, "date", dates)
        m == SetCol(d, "month", MapCol(d, "date", dt_month))
        y == SetCol(m, "year", MapCol(m, "date", dt_year))
    IN  SetCol(y, "day_of_week", MapCol(y, "date", dt_day_name))

analyze_occupancy(t, dcs) ==
    IF dcs = <<>> THEN [out |-> NoneResult, df |-> t]
    ELSE IF ~HasCol(t, dcs[1]) THEN [out |-> Fault("KeyError"), df |-> t]
    ELSE LET conv == ToDatetimeCol(t, dcs[1])
         IN  IF conv.kind = "fault" THEN [out |-> conv, df |-> t]
             ELSE LET d == occupancy_columns(t, conv.val)
                      all(i) == TRUE
                  IN  [out |-> Value(
                          [total_bookings |-> d.n,
                           unique_dates |-> NUnique(d.col["date"]),
                           monthly_occupancy |->
                               {[year |-> g.k1, month |-> g.k2, bookings |-> g.booked_days,
                                 date |-> Ts(DaysFromCivil(g.k1, g.k2, 1), 0)]
                                   : g \in GroupSize2(d, "year", "month", all)},
                           dow_occupancy |-> Reindex(ValueCounts(d.col["day_of_week"]), DayKeys)]),
                       df |-> d]

\* lines 59-60 and 79-80: df.groupby([df['date'].dt.year, df['date'].dt.month])
\* names both index levels 'date', and reset_index() refuses to insert the
\* second column of that name
group_by_month(t) ==
    IF ~HasCol(t, "date") THEN Fault("KeyError")
    ELSE IF ~IsDatetimeCol(t, "date") THEN Fault("AttributeError")
    ELSE Fault("ValueError")

analyze_revenue(t, pcs) ==
    IF pcs = <<>> THEN NoneResult
    ELSE IF ~HasCol(t, pcs[1]) THEN Fault("KeyError")
    ELSE group_by_month(t)

analyze_pricing(t, pcs, dcs) ==
    IF pcs = <<>> \/ dcs = <<>> THEN NoneResult
    ELSE IF ~HasCol(t, pcs[1]) THEN Fault("KeyError")
    ELSE group_by_month(t)

---------------------------------------------------------------------------
(* analytics/analysis.py analyze_review_patterns                           *)

\* (x / total * 100).round(1), in tenths of a percent, ties to even
RoundTenths(x, total) ==
    LET q == (x * 1000) \div total
        r2 == 2 * ((x * 1000) % total)
    IN  IF r2 < total THEN q
        ELSE IF r2 > total THEN q + 1
        ELSE IF q % 2 = 0 THEN q ELSE q + 1

analyze_review_patterns(r) ==
    IF r.none \/ IsEmpty(r) THEN [out |-> NoneResult, reviews |-> r]
    ELSE IF ~HasCol(r, "date") THEN [out |-> NoneResult, reviews |-> r]
    ELSE LET conv == ToDatetimeCol(r, "date")
         IN  IF conv.kind = "fault" THEN [out |-> conv, reviews |-> r]
             ELSE LET d == SetCol(r, "date", conv.val)
                      w == SetCol(d, "day_of_week", MapCol(d, "date", dt_day_name))
                      by_day == Reindex(ValueCounts(w.col["day_of_week"]), DayKeys)
                  IN  [out |-> Value(
                          [reviews_by_day |-> by_day,
                           reviews_by_day_pct |->
                               [i \in 1..7 |-> [key |-> by_day[i].key,
                                                val |-> IF IsNA(by_day[i].val) THEN NaN
                                                        ELSE Num(RoundTenths(by_day[i].val.v, w.n))]],
                           total_reviews |-> w.n,
                           avg_reviews_per_day |-> [num |-> w.n, den |-> 7]]),
                       reviews |-> w]


---------------------------------------------------------------------------
(* analytics/analysis.py analyze_enhanced_review_patterns: the result of   *)
(* analyze_review_patterns extended by the statistics and the binned       *)
(* distribution of each review feature of the listings table.  The values  *)
(* of reviews_per_month are kept in tenths; the standard deviation, the    *)
(* correlations and the per-group tables are left out of the result.       *)

review_features == <<"number_of_reviews", "reviews_per_month", "number_of_reviews_ltm">>

ReviewCountBins == <<0, 1, 5, 10, 25, 50, 100, Inf>>
ReviewCountLabels == <<"0", "1-5", "6-10", "11-25", "26-50", "51-100", "100+">>
ReviewRateBins == <<0, 1, 5, 10, 20, 50, 100, Inf>>
ReviewRateLabels == <<"0", "0.1-0.5", "0.6-1", "1.1-2", "2.1-5", "5.1-10", "10+">>

\* lines 441-454, for the non-missing values of one feature
review_distribution(feature, feature_data) ==
    LET bins == IF feature = "reviews_per_month" THEN ReviewRateBins ELSE ReviewCountBins
        labels == IF feature = "reviews_per_month" THEN ReviewRateLabels ELSE ReviewCountLabels
    IN  CategoryCounts([i \in 1..Len(feature_data) |-> Cut(feature_data[i], bins, labels, TRUE)], labels)

\* lines 420-431
review_feature_stats(feature_data) ==
    LET xs == Values(feature_data)
        zero == Cardinality({i \in 1..Len(xs) : xs[i] = 0})
    IN  [mean |-> Mean(xs),
         median |-> Quantile4(xs, 2),
         min |-> Min(xs),
         max |-> Max(xs),
         total_listings |-> Len(xs),
         zero_reviews |-> zero,
         zero_reviews_pct |-> RoundTenths(zero, Len(xs))]

\* lines 410-456, given the result of analyze_review_patterns
enhanced_data(basic, lst) ==
    LET available_features == SelectSeq(review_features, LAMBDA f : HasCol(lst, f))
        with_data == {f \in Range(available_features) : Len(DropNa(lst.col[f])) > 0}
        enhanced == ~lst.none /\ ~IsEmpty(lst) /\ available_features # <<>>
    IN  [reviews_by_day |-> basic.reviews_by_day,
         reviews_by_day_pct |-> basic.reviews_by_day_pct,
         total_reviews |-> basic.total_reviews,
         avg_reviews_per_day |-> basic.avg_reviews_per_day,
         review_stats |-> IF enhanced
                          THEN [f \in with_data |-> review_feature_stats(DropNa(lst.col[f]))] ELSE <<>>,
         review_distributions |-> IF enhanced
                                  THEN [f \in with_data |-> review_distribution(f, DropNa(lst.col[f]))] ELSE <<>>]

analyze_enhanced_review_patterns(r, lst) ==
    IF r.none \/ IsEmpty(r) THEN [out |-> NoneResult, reviews |-> r]
    ELSE LET basic == analyze_review_patterns(r)
         IN  IF basic.out.kind # "value" THEN basic
             ELSE [out |-> Value(enhanced_data(basic.out.val, lst)), reviews |-> basic.reviews]

---------------------------------------------------------------------------
(* analytics/analysis.py create_calendar_events.  The operator gives the   *)
(* outcome of the call and the caller's calendar as the call leaves it:    *)
(* the filter and head() give the function a table of its own, and without *)
(* them calendar_df is still the caller's object when the columns are      *)
(* written.                                                                *)

DefaultMaxEvents == 1000

\* the rows of t at the indices of the sequence is, in that order
Pick(t, is) ==
    [t EXCEPT !.n = Len(is),
              !.col = [k \in Range(t.cols) |-> [j \in 1..Len(is) |-> t.col[k][is[j]]]]]

\* the table without the listing filter
NoFilter(t, listing_id) == t

\* calendar_df[calendar_df['listing_id'] == listing_id].copy()
FilterListing(t, listing_id) ==
    Pick(t, SelectSeq([i \in 1..t.n |-> i], LAMBDA i : t.col["listing_id"][i] = listing_id))

\* DataFrame.head(k) for k >= 0
head(t, k) == Pick(t, [i \in 1..(IF k < t.n THEN k ELSE t.n) |-> i])

DecimalDigits == <<"0", "1", "2", "3", "4", "5", "6", "7", "8", "9">>

\* str(n) of a non-negative integer
RECURSIVE PyStrInt(_)
PyStrInt(n) ==
    IF n < 10 THEN <<DecimalDigits[n + 1]>>
    ELSE PyStrInt(n \div 10) \o <<DecimalDigits[(n % 10) + 1]>>

\* Timestamp.strftime('%Y-%m-%d'); NaT refuses strftime
strftime(c) ==
    IF c.t = "ts"
    THEN LET d == CivilFromDays(c.v[1]) IN Value(DStr(d.year, d.month, d.day))
    ELSE Fault("ValueError")

\* row.get(key, default)
RowGet(t, i, key, default) == IF HasCol(t, key) THEN t.col[key][i] ELSE default

\* lines 341-363: the event of row i
calendar_event(t, i) ==
    LET available == t.col["available"][i] = Flag("t")
        price_display == RowGet(t, i, "price_clean", RowGet(t, i, "price", Label("N/A")))
    IN  [title |-> [text |-> IF available THEN "Available - $" ELSE "Booked - $", price |-> price_display],
         start |-> strftime(t.col["date"][i]).val,
         end |-> strftime(t.col["date"][i]).val,
         color |-> IF available THEN "#28a745" ELSE "#dc3545",
         resourceId |-> IF HasCol(t, "listing_id") THEN PyStrInt(t.col["listing_id"][i].v) ELSE <<>>,
         extendedProps |-> [available |-> available,
                            price |-> RowGet(t, i, "price_clean", RowGet(t, i, "price", NoneCell)),
                            minimum_nights |-> RowGet(t, i, "minimum_nights", NoneCell),
                            maximum_nights |-> RowGet(t, i, "maximum_nights", NoneCell)]]

\* lines 330-366, on the table the function works on
calendar_events(t, max_events) ==
    LET shown == IF max_events < t.n THEN max_events ELSE t.n
    IN  IF ~HasCol(t, "available") THEN Fault("KeyError")
        ELSE IF shown > 0 /\ ~HasCol(t, "date") THEN Fault("KeyError")
        ELSE IF \E i \in 1..shown : strftime(t.col["date"][i]).kind = "fault" THEN Fault("ValueError")
        ELSE Value([i \in 1..shown |-> calendar_event(t, i)])

\* lines 319-328: the date and price_clean columns written into the table
event_columns(t) ==
    LET conv == IF HasCol(t, "date") THEN ToDatetimeCol(t, "date") ELSE Value(<<>>)
        d == IF HasCol(t, "date") /\ conv.kind = "value" THEN SetCol(t, "date", conv.val) ELSE t
        num == IF HasCol(t, "price") THEN ToNumericCol(d, "price") ELSE Value(<<>>)
    IN  IF conv.kind = "fault" THEN [out |-> conv, t |-> t]
        ELSE IF num.kind = "fault" THEN [out |-> num, t |-> d]
        ELSE [out |-> Value(<<>>),
              t |-> IF HasCol(t, "price") THEN SetCol(d, "price_clean", num.val) ELSE d]

create_calendar_events(cal, listing_id, max_events) ==
    IF cal.none \/ IsEmpty(cal) THEN [out |-> Value(<<>>), cal |-> cal]
    ELSE IF listing_id # NoneCell /\ ~HasCol(cal, "listing_id") THEN [out |-> Fault("KeyError"), cal |-> cal]
    ELSE LET filtered == IF listing_id # NoneCell THEN FilterListing(cal, listing_id) ELSE cal
             capped == IF filtered.n > max_events THEN head(filtered, max_events) ELSE filtered
             own == listing_id # NoneCell \/ filtered.n > max_events
             written == event_columns(capped)
         IN  [out |-> IF written.out.kind = "fault" THEN written.out
                      ELSE calendar_events(written.t, max_events),
              cal |-> IF own THEN cal ELSE written.t]

---------------------------------------------------------------------------
(* utils/data_loader.py load_booking_data.  An uploaded file is the table  *)
(* pd.read_csv returns for it: [columns, rows], the column names as        *)
(* sequences of characters and each row a sequence of cells.  The outcome  *)
(* is the triple (table, date hints, price hints); list(set(...)) gives    *)
(* the hints in an arbitrary order, so the operator is the set of the      *)
(* outcomes.  st.cache_data keeps the outcome of the first call per        *)
(* argument.                                                               *)

\* sub in s, for two strings
Within(sub, s) == \E k \in 0..(Len(s) - Len(sub)) : SubSeq(s, k + 1, k + Len(sub)) = sub

\* str.replace(old, new) for single characters
ReplaceChar(s, old, new) == [i \in 1..Len(s) |-> IF s[i] = old THEN new ELSE s[i]]

\* the column name with the spaces replaced and the case kept
KeepCase(name) == ReplaceChar(name, " ", "_")

\* line 24: df.columns.str.lower().str.replace(' ', '_')
NormalizeColumn(name) == ReplaceChar(LowerStr(name), " ", "_")

DateWords == {<<"d", "a", "t", "e">>, <<"c", "h", "e", "c", "k">>, <<"a", "r", "r", "i", "v", "a", "l">>}
PriceWords == {<<"p", "r", "i", "c", "e">>, <<"r", "e", "v", "e", "n", "u", "e">>, <<"a", "m", "o", "u", "n", "t">>, <<"t", "o", "t", "a", "l">>}

\* lines 27 and 38
IsDateColumn(col) == \E w \in DateWords : Within(w, col)
IsPriceColumn(col) == \E w \in PriceWords : Within(w, col)

\* pd.to_datetime(errors='coerce') of one cell
to_datetime_coerce(c) == LET r == to_datetime(c) IN IF r.kind = "fault" THEN NaT ELSE r.val

\* Series.astype(str) of one cell
astype_str(c) ==
    IF c.t = "str" THEN c.v
    ELSE IF c.t = "int" THEN PyStrInt(c.v)
    ELSE IF c.t = "ts" THEN LET d == CivilFromDays(c.v[1])
                            IN  PyStrInt(d.year) \o <<"-">> \o PyStrInt(d.month) \o <<"-">> \o PyStrInt(d.day)
    ELSE IF c.t = "nat" THEN <<"N", "a", "T">>
    ELSE <<"n", "a", "n">>

\* pd.to_numeric(errors='coerce') of a string stripped of '$' and ','
to_numeric_coerce(str) ==
    LET r == PyFloat(Replace(Replace(str, "$"), ","))
    IN  IF r.kind = "fault" THEN NaN ELSE r.val

\* lines 21-46: one file read, renamed and converted
process_file(f) ==
    LET cols == [j \in 1..Len(f.columns) |-> NormalizeColumn(f.columns[j])]
        dated(j, c) == IF IsDateColumn(cols[j]) THEN to_datetime_coerce(c) ELSE c
        priced(j, c) == IF IsPriceColumn(cols[j]) THEN to_numeric_coerce(astype_str(c)) ELSE c
    IN  [columns |-> cols,
         rows |-> [i \in 1..Len(f.rows) |-> [j \in 1..Len(cols) |-> priced(j, dated(j, f.rows[i][j]))]]]

\* the column names of the frames in the order of their first appearance
RECURSIVE UnionColumns(_)
UnionColumns(frames) ==
    IF frames = <<>> THEN <<>>
    ELSE LET before == UnionColumns(SubSeq(frames, 1, Len(frames) - 1))
         IN  before \o SelectSeq(frames[Len(frames)].columns, LAMBDA c : c \notin Range(before))

\* the value pd.concat fills a column with in the rows of a frame without it
FillValue(col) == IF IsDateColumn(col) /\ ~IsPriceColumn(col) THEN NaT ELSE NaN

\* line 54: pd.concat(all_dfs, ignore_index=True), rows as functions of the column name
RECURSIVE ConcatRows(_, _)
ConcatRows(frames, cols) ==
    IF frames = <<>> THEN <<>>
    ELSE LET f == frames[1]
             at(c) == CHOOSE j \in 1..Len(f.columns) : f.columns[j] = c
         IN  [i \in 1..Len(f.rows) |->
                 [c \in Range(cols) |-> IF c \in Range(f.columns) THEN f.rows[i][at(c)] ELSE FillValue(c)]]
                 \o ConcatRows(Tail(frames), cols)

\* the rows as they are, duplicates included
KeepAll(rows) == rows

\* line 56: DataFrame.drop_duplicates(), the first of equal rows is kept
drop_duplicates(rows) ==
    LET RECURSIVE Keep(_)
        Keep(i) == IF i > Len(rows) THEN <<>>
                   ELSE IF \E j \in 1..(i - 1) : rows[j] = rows[i] THEN Keep(i + 1)
                   ELSE <<rows[i]>> \o Keep(i + 1)
    IN  Keep(1)

\* list(set(names)): the distinct names in some order
Orderings(S) == {s \in [1..Cardinality(S) -> S] : Range(s) = S}

\* all_date_columns and all_price_columns, lines 49-50
AllHints(frames, is_hint(_)) == UNION {{c \in Range(frames[k].columns) : is_hint(c)} : k \in 1..Len(frames)}

load_booking_data(files) ==
    IF files = <<>> THEN {Value([df |-> NoneDF, date_columns |-> <<>>, price_columns |-> <<>>])}
    ELSE LET all_dfs == [k \in 1..Len(files) |-> process_file(files[k])]
             cols == UnionColumns(all_dfs)
             combined_df == Table(cols, drop_duplicates(ConcatRows(all_dfs, cols)))
         IN  {Value([df |-> combined_df, date_columns |-> dc, price_columns |-> pc])
                 : dc \in Orderings(AllHints(all_dfs, IsDateColumn)),
                   pc \in Orderings(AllHints(all_dfs, IsPriceColumn))}

---------------------------------------------------------------------------
(* The data files of the working directory and the loaders that read them: *)
(* utils/data_loader.py load_city_data and load_full_calendar_data,        *)
(* airbnb_host_advisor.py load_data.  A file is absent, holds a table, or  *)
(* exists and cannot be parsed.  A loader's outcome is the tuple it        *)
(* returns, with the absent table for None.                                *)

Files == {"listings.csv", "listings.csv.gz", "calendar.csv.gz", "reviews.csv", "reviews.csv.gz"}

Absent == [state |-> "absent", table |-> NoneDF]
Corrupt == [state |-> "corrupt", table |-> NoneDF]
OnDisk(t) == [state |-> "file", table |-> t]

NoFiles == [f \in Files |-> Absent]

\* Path(f).exists()
Exists(d, f) == d[f].state # "absent"

\* pd.read_csv(f): the table of the file, or the exception of the parser
read_csv(d, f) == IF d[f].state = "file" THEN Value(d[f].table) ELSE Fault("ParserError")

\* the columns of cs, in the order of the table
SelectCols(t, cs) ==
    [t EXCEPT !.cols = SelectSeq(t.cols, LAMBDA c : c \in Range(cs)),
              !.col = [k \in Range(t.cols) \cap Range(cs) |-> t.col[k]]]

CalendarUseCols == <<"listing_id", "date", "available", "price", "minimum_nights", "maximum_nights">>
CityCalendarRows == 10000

\* pd.read_csv(f, usecols=...): a column of usecols the file lacks is a ValueError
read_csv_usecols(d, f, usecols) ==
    LET r == read_csv(d, f)
    IN  IF r.kind = "fault" THEN r
        ELSE IF \E c \in Range(usecols) : ~HasCol(r.val, c) THEN Fault("ValueError")
        ELSE Value(SelectCols(r.val, usecols))

\* DataFrame.dropna(axis=1, how='all'): the columns holding a value
dropna_columns(t) == SelectCols(t, SelectSeq(t.cols, LAMBDA c : \E i \in 1..t.n : ~IsNA(t.col[c][i])))

\* calendar_df['date'] = pd.to_datetime(calendar_df['date'])
convert_date(t) ==
    IF ~HasCol(t, "date") THEN Fault("KeyError")
    ELSE LET conv == ToDatetimeCol(t, "date")
         IN  IF conv.kind = "fault" THEN conv ELSE Value(SetCol(t, "date", conv.val))

\* the listings file that is read: listings.csv before listings.csv.gz
ListingsFile(d) ==
    IF Exists(d, "listings.csv") THEN "listings.csv"
    ELSE IF Exists(d, "listings.csv.gz") THEN "listings.csv.gz"
    ELSE ""

\* the same, an absent file being read all the same
RequiredTable(d, fs) ==
    LET present == SelectSeq(fs, LAMBDA f : Exists(d, f))
    IN  IF present = <<>> THEN read_csv(d, fs[1]) ELSE read_csv(d, present[1])

\* an optional table: the first of the files that exists is read, None when none does
OptionalTable(d, fs) ==
    LET present == SelectSeq(fs, LAMBDA f : Exists(d, f))
    IN  IF present = <<>> THEN Value(NoneDF) ELSE read_csv(d, present[1])

\* the calendar of the given number of rows with its dates converted
sampled_calendar(d, nrows) ==
    IF ~Exists(d, "calendar.csv.gz") THEN Value(NoneDF)
    ELSE LET r == read_csv_usecols(d, "calendar.csv.gz", CalendarUseCols)
         IN  IF r.kind = "fault" THEN r ELSE convert_date(dropna_columns(head(r.val, nrows)))

NoneTriple == Value(<<NoneDF, NoneDF, NoneDF>>)

\* data_loader.py lines 65-110: (listings_df, calendar_df, reviews_df)
load_city_data(d) ==
    IF ListingsFile(d) = "" THEN NoneTriple
    ELSE LET l == read_csv(d, ListingsFile(d))
             c == sampled_calendar(d, CityCalendarRows)
             r == OptionalTable(d, <<"reviews.csv", "reviews.csv.gz">>)
         IN  IF l.kind = "fault" \/ c.kind = "fault" \/ r.kind = "fault" THEN NoneTriple
             ELSE Value(<<dropna_columns(l.val), c.val, r.val>>)

\* airbnb_host_advisor.py lines 279-310: (listings_df, reviews_df, calendar_df)
load_data(d) ==
    IF ListingsFile(d) = "" THEN NoneTriple
    ELSE LET l == read_csv(d, ListingsFile(d))
             r == OptionalTable(d, <<"reviews.csv", "reviews.csv.gz">>)
             c == OptionalTable(d, <<"calendar.csv.gz">>)
         IN  IF l.kind = "fault" \/ r.kind = "fault" \/ c.kind = "fault" THEN NoneTriple
             ELSE Value(<<l.val, r.val, c.val>>)

\* data_loader.py lines 134-149: the whole calendar, or None
load_full_calendar_data(d) ==
    IF ~Exists(d, "calendar.csv.gz") THEN Value(NoneDF)
    ELSE LET r == read_csv_usecols(d, "calendar.csv.gz", CalendarUseCols)
             c == IF r.kind = "fault" THEN r ELSE convert_date(dropna_columns(r.val))
         IN  IF c.kind = "fault" THEN Value(NoneDF) ELSE c

---------------------------------------------------------------------------
(* airbnb_host_advisor.py main: the sidebar options, the locked ones among *)
(* them, and the view called for the selected option.  The views are the   *)
(* calls modelled above; the outcome of main names the view it calls and   *)
(* the tables it hands to it, view "" when it calls none.                  *)

mvp_options == <<"Main Dashboard", "Occupancy Analysis", "Price Analysis", "Market Comparison", "Price Recommendations">>

\* lines 385-390
disabled_options(has_calendar, has_price_data) ==
    (IF ~has_calendar THEN <<"Occupancy Analysis">> ELSE <<>>)
        \o (IF ~has_price_data THEN <<"Price Analysis", "Price Recommendations">> ELSE <<>>)

\* lines 392-398: a locked option is shown with the lock prefix and '(No data)'
selectbox_options(disabled) ==
    [i \in 1..Len(mvp_options) |-> [locked |-> mvp_options[i] \in Range(disabled), option |-> mvp_options[i]]]

\* lines 408-414: startswith("🔒 ")
analysis_type_of(selected_option) ==
    IF selected_option.locked THEN "Occupancy Analysis" ELSE selected_option.option

\* lines 422-448: the view called for the analysis type
view_called(analysis_type, has_calendar, has_price_data) ==
    IF analysis_type = "Main Dashboard" THEN "show_main_dashboard"
    ELSE IF analysis_type = "Occupancy Analysis" THEN (IF has_calendar THEN "show_occupancy_analysis" ELSE "")
    ELSE IF analysis_type = "Price Analysis" THEN (IF has_price_data THEN "show_price_analysis" ELSE "")
    ELSE IF analysis_type = "Market Comparison" THEN "show_market_comparison"
    ELSE IF analysis_type = "Price Recommendations" THEN (IF has_price_data THEN "show_price_recommendations" ELSE "")
    ELSE ""

\* lines 355-448, on the tuple load_data returned and the index selected in the sidebar
main(loaded, selected) ==
    LET lst == loaded[1]
        cal == loaded[3]
    IN  IF lst.none
        THEN Value([locked |-> FALSE, analysis_type |-> "", view |-> "", has_calendar |-> FALSE,
                    has_price_data |-> FALSE, listings |-> lst, calendar |-> cal])
        ELSE LET has_calendar == ~cal.none
                 has_price_data == ColsWith(lst, "price") # <<>>
                 selected_option == selectbox_options(disabled_options(has_calendar, has_price_data))[selected]
                 analysis_type == analysis_type_of(selected_option)
                 pcs == ColsWith(lst, "price")
                 cleaned == IF pcs # <<>> THEN clean_price_data(lst, pcs[1]) ELSE Value(lst)
             IN  IF cleaned.kind = "fault" THEN cleaned
                 ELSE Value([locked |-> selected_option.locked,
                             analysis_type |-> analysis_type,
                             view |-> view_called(analysis_type, has_calendar, has_price_data),
                             has_calendar |-> has_calendar,
                             has_price_data |-> has_price_data,
                             listings |-> cleaned.val,
                             calendar |-> cal])

---------------------------------------------------------------------------
(* Calls.  Every action is one call of a function of the program on the    *)
(* caller's tables: it leaves the tables as the call leaves them, records  *)
(* the arguments that are not tables in args, the outcome in result and    *)
(* the outcome of the call before it, when it was the same call, in prev.  *)

RecordWith(name, a, r) ==
    /\ calls < MaxCalls
    /\ calls' = calls + 1
    /\ op' = name
    /\ args' = a
    /\ prev' = IF op = name /\ args = a THEN result ELSE NoCall
    /\ result' = r

Record(name, r) == RecordWith(name, <<>>, r)

CleanPriceData ==
    /\ ~listings_df.none
    /\ price_cols # <<>>
    /\ LET r == clean_price_data(listings_df, price_cols[1])
       IN  /\ Record("clean_price_data", r)
           /\ listings_df' = IF r.kind = "value" THEN r.val ELSE listings_df
    /\ UNCHANGED <<disk, uploaded_files, cache, df, date_cols, price_cols, calendar_df, reviews_df>>

AnalyzeCopenhagenOccupancy ==
    /\ LET r == analyze_copenhagen_occupancy(calendar_df, listings_df)
       IN  /\ Record("analyze_copenhagen_occupancy", r.out)
           /\ calendar_df' = r.cal
    /\ UNCHANGED <<disk, uploaded_files, cache, df, date_cols, price_cols, listings_df, reviews_df>>

AnalyzeCityMarket ==
    /\ LET r == analyze_city_market(listings_df, calendar_df)
       IN  /\ Record("analyze_city_market", r.out)
           /\ listings_df' = r.lst
    /\ UNCHANGED <<disk, uploaded_files, cache, df, date_cols, price_cols, calendar_df, reviews_df>>

\* main calls the views only with a listings table (line 365)
ShowMainDashboard ==
    /\ ~listings_df.none
    /\ Record("show_main_dashboard", show_main_dashboard(listings_df, calendar_df))
    /\ UNCHANGED <<disk, uploaded_files, cache, df, date_cols, price_cols, listings_df, calendar_df, reviews_df>>

ShowOccupancyAnalysis ==
    /\ ~listings_df.none
    /\ LET r == show_occupancy_analysis(listings_df, calendar_df)
       IN  /\ Record("show_occupancy_analysis", r.out)
           /\ calendar_df' = r.cal
    /\ UNCHANGED <<disk, uploaded_files, cache, df, date_cols, price_cols, listings_df, reviews_df>>

ShowOptimalPricing ==
    /\ ~listings_df.none
    /\ \E nb \in FilterOptions(listings_df, "neighbourhood") : \E rt \in FilterOptions(listings_df, "room_type") :
           Record("show_optimal_pricing", show_optimal_pricing(listings_df, nb, rt))
    /\ UNCHANGED <<disk, uploaded_files, cache, df, date_cols, price_cols, listings_df, calendar_df, reviews_df>>

ShowPriceRecommendations ==
    /\ ~listings_df.none
    /\ \E nb \in FilterOptions(listings_df, "neighbourhood") : \E rt \in FilterOptions(listings_df, "room_type") :
           Record("show_price_recommendations", show_price_recommendations(listings_df, nb, rt))
    /\ UNCHANGED <<disk, uploaded_files, cache, df, date_cols, price_cols, listings_df, calendar_df, reviews_df>>

ShowAmenityAnalysis ==
    /\ ~listings_df.none
    /\ Record("show_amenity_analysis", show_amenity_analysis(listings_df))
    /\ UNCHANGED <<disk, uploaded_files, cache, df, date_cols, price_cols, listings_df, calendar_df, reviews_df>>

AnalyzeOccupancy ==
    /\ ~df.none
    /\ LET r == analyze_occupancy(df, date_cols)
       IN  /\ Record("analyze_occupancy", r.out)
           /\ df' = r.df
    /\ UNCHANGED <<disk, uploaded_files, cache, date_cols, price_cols, listings_df, calendar_df, reviews_df>>

AnalyzeRevenue ==
    /\ ~df.none
    /\ Record("analyze_revenue", analyze_revenue(df, price_cols))
    /\ UNCHANGED <<disk, uploaded_files, cache, df, date_cols, price_cols, listings_df, calendar_df, reviews_df>>

AnalyzePricing ==
    /\ ~df.none
    /\ Record("analyze_pricing", analyze_pricing(df, price_cols, date_cols))
    /\ UNCHANGED <<disk, uploaded_files, cache, df, date_cols, price_cols, listings_df, calendar_df, reviews_df>>

AnalyzeReviewPatterns ==
    /\ LET r == analyze_review_patterns(reviews_df)
       IN  /\ Record("analyze_review_patterns", r.out)
           /\ reviews_df' = r.reviews
    /\ UNCHANGED <<disk, uploaded_files, cache, df, date_cols, price_cols, listings_df, calendar_df>>

AnalyzeEnhancedReviewPatterns ==
    /\ LET r == analyze_enhanced_review_patterns(reviews_df, listings_df)
       IN  /\ Record("analyze_enhanced_review_patterns", r.out)
           /\ reviews_df' = r.reviews
    /\ UNCHANGED <<disk, uploaded_files, cache, df, date_cols, price_cols, listings_df, calendar_df>>

\* @st.cache_data: the stored outcomes of the calls made with the given arguments
NoHits(key) == {}
CacheHits(key) == {e \in cache : e.key = key}

\* a call of a cached function: the stored outcome when there is one, else
\* the outcome computed now, which is stored
CachedCall(name, a, computed) ==
    LET hits == CacheHits(<<name, a>>)
    IN  IF hits # {}
        THEN /\ RecordWith(name, a, (CHOOSE e \in hits : TRUE).out)
             /\ cache' = cache
        ELSE /\ RecordWith(name, a, computed)
             /\ cache' = cache \cup {[key |-> <<name, a>>, out |-> computed]}

\* the outcome computed on a miss is any of the orders list(set(...)) can give
LoadBookingData ==
    /\ \E r \in load_booking_data(uploaded_files) : CachedCall("load_booking_data", uploaded_files, r)
    /\ UNCHANGED <<disk, uploaded_files, df, date_cols, price_cols, listings_df, calendar_df, reviews_df>>

CreateCalendarEvents ==
    /\ \E listing_id \in {NoneCell, IntCell(1), IntCell(2)} :
       \E max_events \in (0..MaxRows) \cup {DefaultMaxEvents} :
           LET r == create_calendar_events(calendar_df, listing_id, max_events)
           IN  /\ RecordWith("create_calendar_events", <<listing_id, max_events>>, r.out)
               /\ calendar_df' = r.cal
    /\ UNCHANGED <<disk, uploaded_files, cache, df, date_cols, price_cols, listings_df, reviews_df>>

LoadCityData ==
    /\ CachedCall("load_city_data", <<>>, load_city_data(disk))
    /\ UNCHANGED <<disk, uploaded_files, df, date_cols, price_cols, listings_df, calendar_df, reviews_df>>

LoadData ==
    /\ CachedCall("load_data", <<>>, load_data(disk))
    /\ UNCHANGED <<disk, uploaded_files, df, date_cols, price_cols, listings_df, calendar_df, reviews_df>>

LoadFullCalendarData ==
    /\ CachedCall("load_full_calendar_data", <<>>, load_full_calendar_data(disk))
    /\ UNCHANGED <<disk, uploaded_files, df, date_cols, price_cols, listings_df, calendar_df, reviews_df>>

\* one run of the script: load_data() through the cache, then the dispatch
Main ==
    /\ \E selected \in 1..Len(mvp_options) :
           LET hits == CacheHits(<<"load_data", <<>>>>)
               loaded == IF hits # {} THEN (CHOOSE e \in hits : TRUE).out ELSE load_data(disk)
           IN  /\ RecordWith("main", <<selected>>, main(loaded.val, selected))
               /\ cache' = cache \cup {[key |-> <<"load_data", <<>>>>, out |-> loaded]}
    /\ UNCHANGED <<disk, uploaded_files, df, date_cols, price_cols, listings_df, calendar_df, reviews_df>>

---------------------------------------------------------------------------
(* Inputs of the price normaliser: one price cell of every Python type     *)

PriceStrings == SeqsUpTo(Chars, MaxStrLen)

PriceCells ==
    {Str(s) : s \in PriceStrings}
        \cup {IntCell(n) : n \in {0, 7}} \cup {Num(n) : n \in {0, 12}}
        \cup {NaN, NoneCell, ObjCell}

OneColumn(c, cells) == [none |-> FALSE, cols |-> <<c>>, n |-> Len(cells), col |-> [k \in {c} |-> cells]]

InitIdle ==
    /\ df = NoneDF /\ date_cols = <<>> /\ price_cols = <<>>
    /\ listings_df = NoneDF /\ calendar_df = NoneDF /\ reviews_df = NoneDF
    /\ disk = NoFiles /\ uploaded_files = <<>> /\ cache = {}
    /\ op = "" /\ args = <<>> /\ result = NoCall /\ prev = NoCall /\ calls = 0

InitPrice ==
    /\ df = NoneDF /\ date_cols = <<>> /\ calendar_df = NoneDF /\ reviews_df = NoneDF
    /\ disk = NoFiles /\ uploaded_files = <<>> /\ cache = {}
    /\ op = "" /\ args = <<>> /\ result = NoCall /\ prev = NoCall /\ calls = 0
    /\ price_cols = <<"price">>
    /\ \E c \in PriceCells : \E name \in {"price", "cost"} :
           listings_df = OneColumn(name, <<c>>)

NextPrice == CleanPriceData

SpecPrice == InitPrice /\ [][NextPrice]_vars

---------------------------------------------------------------------------
(* C1: clean_price_data never raises; a numeric cell maps to the same      *)
(* value as a float, a string cell to the number left after removing every *)
(* '$' and ',', and None, the empty string and every string that is not a  *)
(* number after stripping to NaN; the result is the column                 *)
(* '<price_col>_clean'.                                                    *)

RECURSIVE Pow10(_)
Pow10(k) == IF k = 0 THEN 1 ELSE 10 * Pow10(k - 1)

Kept(s) == SelectSeq(s, LAMBDA c : c \notin {"$", ","})

Magnitude(ds) == SumSeq([i \in 1..Len(ds) |-> DigitVal(ds[i]) * Pow10(Len(ds) - i)])

ExpectedClean(c) ==
    IF c.t \in {"int", "num"} THEN Num(c.v)
    ELSE IF c.t # "str" THEN NaN
    ELSE LET k == Kept(c.v)
             neg == k # <<>> /\ k[1] = "-"
             ds == IF neg THEN Tail(k) ELSE k
         IN  IF ds = <<>> \/ \E i \in 1..Len(ds) : ds[i] \notin Digits THEN NaN
             ELSE Num(IF neg THEN 0 - Magnitude(ds) ELSE Magnitude(ds))

C1_CleanPriceTotal ==
    op = "clean_price_data" =>
        /\ result.kind = "value"
        /\ HasCol(listings_df, "price") =>
              /\ HasCol(listings_df, "price_clean")
              /\ \A i \in 1..listings_df.n :
                    listings_df.col["price_clean"][i] = ExpectedClean(listings_df.col["price"][i])

C1_Witness ==
    /\ op = "clean_price_data"
    /\ HasCol(listings_df, "price_clean")
    /\ listings_df.col["price"][1] = Str(<<"$", "1", "0">>)
    /\ listings_df.col["price_clean"][1] = Num(10)

C1_WitnessGarbage ==
    /\ op = "clean_price_data"
    /\ HasCol(listings_df, "price_clean")
    /\ listings_df.col["price"][1] = Str(<<"1", "x">>)
    /\ listings_df.col["price_clean"][1] = NaN

---------------------------------------------------------------------------
(* Inputs of the calendar analyses: every calendar of up to MaxRows rows,  *)
(* with or without the 'date' and 'available' columns, the absent and the  *)
(* empty calendar, and the calendars of ten days of one month with four    *)
(* booked days.                                                            *)

DateCells ==
    {DStr(2024, 1, 1), DStr(2024, 6, 8), DStr(2025, 1, 5),
     Ts(DaysFromCivil(2024, 1, 2), 0), NaN, Str(<<"x">>)}

FlagCells == {Flag("t"), Flag("f"), NaN}

CalendarRows ==
    {[listing_id |-> IntCell(1), date |-> d, available |-> a] : d \in DateCells, a \in FlagCells}

ScenarioCalendars ==
    {Table(<<"listing_id", "date", "available">>,
           [i \in 1..10 |->
               [listing_id |-> IntCell(1), date |-> DStr(2024, 1, i),
                available |-> IF i \in b THEN Flag("f") ELSE Flag("t")]])
        : b \in {x \in SUBSET (1..10) : Cardinality(x) = 4}}

\* two-day calendars with a flag that is neither 't' nor 'f'
OtherFlagCalendars ==
    {Table(<<"listing_id", "date", "available">>,
           <<[listing_id |-> IntCell(1), date |-> DStr(2024, 1, 1), available |-> Flag("x")],
             [listing_id |-> IntCell(1), date |-> DStr(2024, 6, 8), available |-> a]>>)
        : a \in {Flag("t"), Flag("f"), Flag("x"), NaN}}

Calendars ==
    {Table(cs, rows) : cs \in {<<"listing_id", "date", "available">>},
                       rows \in SeqsUpTo(CalendarRows, MaxRows)}
        \cup {Table(<<"listing_id", "available">>, rows)
                 : rows \in SeqsUpTo({r \in CalendarRows : r.date = NaN}, MaxRows)}
        \cup {Table(<<"listing_id", "date">>, rows)
                 : rows \in SeqsUpTo({r \in CalendarRows : r.available = NaN}, MaxRows)}
        \cup ScenarioCalendars \cup OtherFlagCalendars \cup {NoneDF}

ListingRow(p, a) == [id |-> IntCell(1), price |-> p, availability_365 |-> a]

SomeListings == Table(<<"id", "price", "availability_365">>, <<ListingRow(Str(<<"$", "1", "0">>), IntCell(100))>>)

InitCalendar ==
    /\ df = NoneDF /\ date_cols = <<>> /\ price_cols = <<>> /\ reviews_df = NoneDF
    /\ disk = NoFiles /\ uploaded_files = <<>> /\ cache = {}
    /\ op = "" /\ args = <<>> /\ result = NoCall /\ prev = NoCall /\ calls = 0
    /\ calendar_df \in Calendars
    /\ listings_df \in {SomeListings, NoneDF}
    /\ listings_df.none => calendar_df \in {NoneDF, Table(<<"listing_id", "date", "available">>, <<>>)}

NextCalendar ==
    \/ AnalyzeCopenhagenOccupancy
    \/ AnalyzeCityMarket
    \/ ShowMainDashboard
    \/ ShowOccupancyAnalysis

SpecCalendar == InitCalendar /\ [][NextCalendar]_vars

---------------------------------------------------------------------------
(* C2: on a non-empty calendar analyze_copenhagen_occupancy reports        *)
(* total_days = rows, booked_days = rows flagged 'f', available_days =     *)
(* rows flagged 't' and occupancy_rate = booked_days / total_days * 100;   *)
(* ten rows of one month with six available and four booked give 10, 4, 6  *)
(* and 40.                                                                 *)

FlagCount(x) == Cardinality({i \in 1..calendar_df.n : calendar_df.col["available"][i] = Flag(x)})

RateEquals(r, a, b) == r.den > 0 /\ b > 0 /\ r.num * b = a * 100 * r.den

---------------------------------------------------------------------------
(* C3: every occupancy rate computed by analyze_copenhagen_occupancy,      *)
(* analyze_city_market, show_main_dashboard and show_occupancy_analysis is *)
(* a number in [0, 100], and for an empty calendar table the rate is 0     *)
(* with no fault and no absent result.                                     *)

InPercentRange(r) == r.den > 0 /\ 0 <= r.num /\ r.num <= 100 * r.den
IsZeroRate(r) == r.den > 0 /\ r.num = 0

OccupancyOps ==
    {"analyze_copenhagen_occupancy", "analyze_city_market", "show_main_dashboard", "show_occupancy_analysis"}

WellFormedCalendar ==
    ~calendar_df.none /\ \A c \in {"listing_id", "date", "available"} : HasCol(calendar_df, c)

\* the occupancy rate held by the outcome of the last call
ReportedRate ==
    IF op = "analyze_copenhagen_occupancy" THEN result.val.occupancy_rate
    ELSE IF op = "analyze_city_market" THEN result.val.calendar_analysis.basic_stats.occupancy_rate
    ELSE IF op = "show_main_dashboard" THEN result.val.occupancy_rate
    ELSE result.val.overall_occupancy_rate

C3_OccupancyRateRange ==
    (op \in OccupancyOps /\ WellFormedCalendar) =>
        /\ result.kind = "value" => InPercentRange(ReportedRate)
        /\ calendar_df.n = 0 => (result.kind = "value" /\ IsZeroRate(ReportedRate))

---------------------------------------------------------------------------
(* C4: a result of analyze_copenhagen_occupancy has a dow_occupancy of     *)
(* exactly the 7 keys Monday..Sunday in that order, each value the number  *)
(* of booked rows on that weekday, 0 for a weekday with no booked row.     *)

BookedOn(day) ==
    Cardinality({i \in 1..calendar_df.n :
                    /\ calendar_df.col["available"][i] = Flag("f")
                    /\ calendar_df.col["date"][i].t = "ts"
                    /\ DayNames[((calendar_df.col["date"][i].v[1] + 3) % 7) + 1] = day})

C4_DowOccupancySevenDays ==
    (op = "analyze_copenhagen_occupancy" /\ result.kind = "value") =>
        LET dow == result.val.dow_occupancy
        IN  /\ Len(dow) = 7
            /\ \A i \in 1..7 :
                  /\ dow[i].key = Label(DayNames[i])
                  /\ dow[i].val = Num(BookedOn(DayNames[i]))

\* 2024-01-01 is a Monday: one booked row on it, none on any other day
C4_Witness ==
    /\ op = "analyze_copenhagen_occupancy"
    /\ result.kind = "value"
    /\ calendar_df.n = 2
    /\ calendar_df.col["date"][1] = Ts(19723, 0)
    /\ calendar_df.col["available"][1] = Flag("f")
    /\ calendar_df.col["available"][2] = Flag("t")
    /\ result.val.dow_occupancy[1] = [key |-> Label("Monday"), val |-> Num(1)]
    /\ result.val.dow_occupancy[2] = [key |-> Label("Tuesday"), val |-> Num(0)]

---------------------------------------------------------------------------
(* Inputs of the availability analysis: every listings table of up to      *)
(* MaxListings rows over the bucket edges and their neighbours, the table  *)
(* of the five listings 10, 50, 100, 310, 320, and a table without the     *)
(* column; the calendar is one booked day.                                 *)

AvailabilityCells ==
    {Num(n) : n \in {0, 1, 10, 30, 31, 50, 90, 91, 100, 180, 181, 299, 300, 310, 320, 365}} \cup {NaN}

AvailabilityTable(cells) ==
    Table(<<"id", "availability_365">>, [i \in 1..Len(cells) |-> [id |-> IntCell(i), availability_365 |-> cells[i]]])

ScenarioAvailability == <<Num(10), Num(50), Num(100), Num(310), Num(320)>>

AvailabilityListings ==
    {AvailabilityTable(cells) : cells \in SeqsUpTo(AvailabilityCells, MaxListings)}
        \cup {AvailabilityTable(ScenarioAvailability)}
        \cup {Table(<<"id">>, <<[id |-> IntCell(1)]>>), NoneDF}

OneBookedDay ==
    Table(<<"listing_id", "date", "available">>,
          <<[listing_id |-> IntCell(1), date |-> DStr(2024, 1, 1), available |-> Flag("f")]>>)

InitAvailability ==
    /\ df = NoneDF /\ date_cols = <<>> /\ price_cols = <<>> /\ reviews_df = NoneDF
    /\ disk = NoFiles /\ uploaded_files = <<>> /\ cache = {}
    /\ op = "" /\ args = <<>> /\ result = NoCall /\ prev = NoCall /\ calls = 0
    /\ calendar_df = OneBookedDay
    /\ listings_df \in AvailabilityListings

NextAvailability == AnalyzeCopenhagenOccupancy

SpecAvailability == InitAvailability /\ [][NextAvailability]_vars

AvailabilityReported ==
    /\ op = "analyze_copenhagen_occupancy"
    /\ result.kind = "value"
    /\ ~listings_df.none
    /\ HasCol(listings_df, "availability_365")

ListingsWithin(lo, hi) ==
    Cardinality({i \in 1..listings_df.n :
                    /\ listings_df.col["availability_365"][i] # NaN
                    /\ lo <= listings_df.col["availability_365"][i].v
                    /\ listings_df.col["availability_365"][i].v <= hi})

---------------------------------------------------------------------------
(* C5: every listing whose availability_365 is a non-missing integer in    *)
(* 0..365 is counted in exactly one bucket, 0..30 in 'Very Low', 31..90 in *)
(* 'Low', 91..180 in 'Medium', 181..365 in 'High'; the four counts sum to  *)
(* the number of listings with a non-missing availability_365.             *)

C5_AvailabilityBuckets ==
    AvailabilityReported =>
        LET d == result.val.availability_analysis.distribution
        IN  /\ d["Very Low (0-30 days)"] = ListingsWithin(0, 30)
            /\ d["Low (31-90 days)"] = ListingsWithin(31, 90)
            /\ d["Medium (91-180 days)"] = ListingsWithin(91, 180)
            /\ d["High (181-365 days)"] = ListingsWithin(181, 365)
            /\ d["Very Low (0-30 days)"] + d["Low (31-90 days)"] + d["Medium (91-180 days)"] + d["High (181-365 days)"]
                   = ListingsWithin(0, 365)

---------------------------------------------------------------------------
(* C6: high_availability_count is the number of listings with              *)
(* availability_365 >= 300, low_availability_count the number with         *)
(* availability_365 <= 30, each percentage the count divided by the number *)
(* of all listings times 100 (0 without listings); no listing is in both   *)
(* subsets; the values 10, 50, 100, 310, 320 give high = 2 and low = 1.    *)

PctOfListings(r, k) ==
    IF listings_df.n = 0 THEN IsZeroRate(r)
    ELSE r.den > 0 /\ r.num * listings_df.n = k * 100 * r.den

---------------------------------------------------------------------------
(* Inputs of the price band views: the listings table as main hands it     *)
(* over, after clean_price_data: every price column of up to MaxPrices     *)
(* prices, and every table of up to MaxListings listings with a            *)
(* neighbourhood and a room type.                                          *)

MaxPrices == 4

BandPrices == {Num(0), Num(50), Num(100), Num(150), Num(200), NaN}

Cleaned(t) == clean_price_data(t, "price").val

PriceOnlyListings ==
    {Cleaned(Table(<<"id", "price">>, [i \in 1..Len(ps) |-> [id |-> IntCell(i), price |-> ps[i]]]))
        : ps \in SeqsUpTo(BandPrices, MaxPrices)}

MarketRows ==
    {[id |-> IntCell(1), price |-> p, neighbourhood |-> nb, room_type |-> rt]
        : p \in {Num(50), Num(200)}, nb \in {Label("Amager"), Label("Valby")},
          rt \in {Label("Private room"), Label("Entire home/apt")}}

MarketListings ==
    {Cleaned(Table(<<"id", "price", "neighbourhood", "room_type">>, rows)) : rows \in SeqsUpTo(MarketRows, MaxListings)}

InitBands ==
    /\ df = NoneDF /\ date_cols = <<>> /\ price_cols = <<>> /\ reviews_df = NoneDF /\ calendar_df = NoneDF
    /\ disk = NoFiles /\ uploaded_files = <<>> /\ cache = {}
    /\ op = "" /\ args = <<>> /\ result = NoCall /\ prev = NoCall /\ calls = 0
    /\ listings_df \in PriceOnlyListings \cup MarketListings \cup {Table(<<"id">>, <<[id |-> IntCell(1)]>>)}

NextBands == ShowOptimalPricing \/ ShowPriceRecommendations

SpecBands == InitBands /\ [][NextBands]_vars

---------------------------------------------------------------------------
(* C7: for every non-empty set of non-missing prices left after filtering  *)
(* the bands shown are Budget [min, Q1], Competitive [Q1, Q2], Premium     *)
(* [Q2, Q3], Luxury [Q3, max] with min <= Q1 <= Q2 <= Q3 <= max: each      *)
(* upper bound is the next lower bound and the bands cover [min, max].     *)

BandOps == {"show_optimal_pricing", "show_price_recommendations"}

\* the non-missing cleaned prices of the listings the last call selected
PricesLeft ==
    IF ~HasCol(listings_df, "price_clean") THEN {}
    ELSE {listings_df.col["price_clean"][i].v :
            i \in {j \in 1..listings_df.n :
                      /\ listings_df.col["price_clean"][j] # NaN
                      /\ result.val.selected_neighbourhood # Label("All") =>
                             listings_df.col["neighbourhood"][j] = result.val.selected_neighbourhood
                      /\ result.val.selected_room_type # Label("All") =>
                             listings_df.col["room_type"][j] = result.val.selected_room_type}}

C7_PriceBandsContiguous ==
    op \in BandOps =>
        /\ result.kind = "value"
        /\ result.val.shown <=> PricesLeft # {}
        /\ result.val.shown =>
              LET v == result.val
              IN  /\ \A p \in PricesLeft : v.min_price <= p /\ p <= v.max_price
                  /\ v.min_price \in PricesLeft /\ v.max_price \in PricesLeft
                  /\ 4 * v.min_price <= v.q25 /\ v.q25 <= v.q50 /\ v.q50 <= v.q75 /\ v.q75 <= 4 * v.max_price
                  /\ v.Budget[1] = Format0(4 * v.min_price) /\ v.Luxury[2] = Format0(4 * v.max_price)
                  /\ v.Budget[2] = v.Competitive[1]
                  /\ v.Competitive[2] = v.Premium[1]
                  /\ v.Premium[2] = v.Luxury[1]
                  /\ v.Budget[1] <= v.Budget[2] /\ v.Competitive[1] <= v.Competitive[2]
                  /\ v.Premium[1] <= v.Premium[2] /\ v.Luxury[1] <= v.Luxury[2]

\* prices 200, 50, 150, 100: Q1 = 87.5, Q2 = 125, Q3 = 162.5
C7_Witness ==
    /\ op = "show_optimal_pricing"
    /\ result.kind = "value"
    /\ HasCol(listings_df, "price_clean")
    /\ listings_df.col["price_clean"] = <<Num(200), Num(50), Num(150), Num(100)>>
    /\ result.val.shown
    /\ result.val.q25 = 350 /\ result.val.q50 = 500 /\ result.val.q75 = 650
    /\ result.val.Budget = <<50, 88>>
    /\ result.val.Luxury = <<162, 200>>

---------------------------------------------------------------------------
(* Inputs of the amenity analysis: listings of up to MaxListings rows with *)
(* an amenities text and a price, as main leaves them after                *)
(* clean_price_data, and a table without an amenities column.              *)

AmenityTexts ==
    {Str(<<"[", "W", "i", "f", "i", "]">>),
     Str(<<"[", "P", "O", "O", "L", ",", "g", "y", "m", "]">>),
     Str(<<"[", "W", "i", "f", "i", ",", "P", "o", "o", "l", "]">>),
     Str(<<"[", "]">>),
     NaN}

AmenityRows ==
    {[id |-> IntCell(1), price |-> p, amenities |-> a] : p \in {Num(0), Num(100), NaN}, a \in AmenityTexts}

AmenityListings ==
    {Cleaned(Table(<<"id", "price", "amenities">>, rows)) : rows \in SeqsUpTo(AmenityRows, MaxListings)}
        \cup {Table(<<"id", "amenities">>, <<[id |-> IntCell(1), amenities |-> a]>>) : a \in AmenityTexts}
        \cup {Cleaned(Table(<<"id", "price">>, <<[id |-> IntCell(1), price |-> Num(100)]>>))}

InitAmenity ==
    /\ df = NoneDF /\ date_cols = <<>> /\ price_cols = <<>> /\ reviews_df = NoneDF /\ calendar_df = NoneDF
    /\ disk = NoFiles /\ uploaded_files = <<>> /\ cache = {}
    /\ op = "" /\ args = <<>> /\ result = NoCall /\ prev = NoCall /\ calls = 0
    /\ listings_df \in AmenityListings

NextAmenity == ShowAmenityAnalysis

SpecAmenity == InitAmenity /\ [][NextAmenity]_vars

---------------------------------------------------------------------------
(* C8: show_amenity_analysis reports an amenity of the fixed keyword list  *)
(* only when at least one listing with a non-missing price matches the     *)
(* keyword and at least one listing with a non-missing price does not; an  *)
(* amenity with an empty partition never appears in the result.            *)

PricedListings(matching, amenity) ==
    {i \in 1..listings_df.n :
        /\ HasCol(listings_df, "price_clean") /\ HasCol(listings_df, "amenities")
        /\ listings_df.col["price_clean"][i].t = "num"
        /\ Contains(listings_df.col["amenities"][i], amenity) = matching}

C8_AmenityPartitionsNonEmpty ==
    op = "show_amenity_analysis" =>
        /\ result.kind = "value"
        /\ \A row \in result.val :
              /\ row.Amenity \in Range(key_amenities)
              /\ PricedListings(TRUE, row.Amenity) # {}
              /\ PricedListings(FALSE, row.Amenity) # {}
              /\ row.ListingsWithAmenity = Cardinality(PricedListings(TRUE, row.Amenity))
              /\ row.WithoutAmenity.den = Cardinality(PricedListings(FALSE, row.Amenity))

\* 'Wifi' matches the keyword 'WiFi'; the listing without amenities is the
\* other partition
C8_Witness ==
    /\ op = "show_amenity_analysis"
    /\ listings_df.n = 2
    /\ HasCol(listings_df, "amenities")
    /\ listings_df.col["amenities"][1] = Str(<<"[", "W", "i", "f", "i", "]">>)
    /\ listings_df.col["amenities"][2] = Str(<<"[", "]">>)
    /\ \E row \in result.val : row.Amenity = key_amenities[1] /\ row.ListingsWithAmenity = 1

\* every listing matches 'WiFi': the amenity is left out
C8_WitnessSkipped ==
    /\ op = "show_amenity_analysis"
    /\ listings_df.n = 2
    /\ HasCol(listings_df, "amenities") /\ HasCol(listings_df, "price_clean")
    /\ \A i \in 1..2 : /\ listings_df.col["amenities"][i] = Str(<<"[", "W", "i", "f", "i", "]">>)
                       /\ listings_df.col["price_clean"][i] = Num(100)
    /\ result.val = {}

---------------------------------------------------------------------------
(* Inputs of the booking analyses: an uploaded table of up to MaxRows rows *)
(* with one date-like column and a numeric price column, and the tables of *)
(* one booking that already hold a column named 'date', 'month', 'year' or *)
(* 'day_of_week' beside the date-like column 'checkin'; the column hints   *)
(* are present or absent.                                                  *)

BookingDateNames == {"date", "checkin", "month"}

BookingDates == {DStr(2024, 3, 5), DStr(2025, 3, 9), Ts(DaysFromCivil(2024, 3, 6), 0), NaN}

BookingTables ==
    {Table(<<h, "price">>, [i \in 1..Len(ds) |-> [k \in {h, "price"} |-> IF k = h THEN ds[i] ELSE Num(100 * i)]])
        : h \in BookingDateNames, ds \in SeqsUpTo(BookingDates, MaxRows) \ {<<>>}}
        \cup {Table(<<"checkin", "price", c>>,
                    <<[k \in {"checkin", "price", c} |->
                          IF k = "checkin" THEN DStr(2024, 3, 5) ELSE IF k = "price" THEN Num(100) ELSE Label("kept")]>>)
                 : c \in {"date", "month", "year", "day_of_week"}}

InitBooking ==
    /\ listings_df = NoneDF /\ calendar_df = NoneDF /\ reviews_df = NoneDF
    /\ disk = NoFiles /\ uploaded_files = <<>> /\ cache = {}
    /\ op = "" /\ args = <<>> /\ result = NoCall /\ prev = NoCall /\ calls = 0
    /\ df \in BookingTables
    /\ date_cols \in {<<>>, <<df.cols[1]>>}
    /\ price_cols \in {<<>>, <<"price">>}

NextBooking == AnalyzeOccupancy \/ AnalyzeRevenue \/ AnalyzePricing

SpecBooking == InitBooking /\ [][NextBooking]_vars

---------------------------------------------------------------------------
(* Inputs of the review analysis: the absent table, and every reviews      *)
(* table of up to MaxRows rows with or without a 'date' column.            *)

ReviewTables ==
    {Table(<<"listing_id", "date">>, [i \in 1..Len(ds) |-> [listing_id |-> IntCell(1), date |-> ds[i]]])
        : ds \in SeqsUpTo(DateCells, MaxRows)}
        \cup {Table(<<"listing_id">>, [i \in 1..k |-> [listing_id |-> IntCell(1)]]) : k \in 0..MaxRows}
        \cup {NoneDF}

InitReviews ==
    /\ df = NoneDF /\ date_cols = <<>> /\ price_cols = <<>> /\ listings_df = NoneDF /\ calendar_df = NoneDF
    /\ disk = NoFiles /\ uploaded_files = <<>> /\ cache = {}
    /\ op = "" /\ args = <<>> /\ result = NoCall /\ prev = NoCall /\ calls = 0
    /\ reviews_df \in ReviewTables

NextReviews == AnalyzeReviewPatterns

SpecReviews == InitReviews /\ [][NextReviews]_vars

---------------------------------------------------------------------------
(* C9: calling an analysis function twice in a row on the same table       *)
(* objects returns equal results: what the first call writes into the      *)
(* caller's tables does not change the second call's result.               *)

AnalysisOps ==
    {"analyze_occupancy", "analyze_revenue", "analyze_pricing", "analyze_city_market",
     "analyze_copenhagen_occupancy", "create_calendar_events", "analyze_review_patterns",
     "analyze_enhanced_review_patterns"}

C9_SecondCallEqual ==
    (op \in AnalysisOps /\ prev.kind # "nocall") => result = prev

---------------------------------------------------------------------------
(* C10: with a missing optional input the analysis returns None and raises *)
(* no fault: analyze_occupancy without a date hint, analyze_revenue        *)
(* without a price hint, analyze_pricing with either hint missing,         *)
(* analyze_city_market without a listings table,                           *)
(* analyze_copenhagen_occupancy with a None or empty calendar or one       *)
(* lacking a 'date' or 'available' column, analyze_review_patterns with    *)
(* None or empty reviews or reviews lacking a 'date' column.               *)

LacksInput(t, required) == t.none \/ IsEmpty(t) \/ \E c \in required : ~HasCol(t, c)

C10_MissingInputGivesNone ==
    /\ (op = "analyze_occupancy" /\ date_cols = <<>>) => result = NoneResult
    /\ (op = "analyze_revenue" /\ price_cols = <<>>) => result = NoneResult
    /\ (op = "analyze_pricing" /\ (price_cols = <<>> \/ date_cols = <<>>)) => result = NoneResult
    /\ (op = "analyze_city_market" /\ listings_df.none) => result = NoneResult
    /\ (op = "analyze_copenhagen_occupancy" /\ LacksInput(calendar_df, {"date", "available"})) => result = NoneResult
    /\ (op = "analyze_review_patterns" /\ LacksInput(reviews_df, {"date"})) => result = NoneResult

---------------------------------------------------------------------------
(* Inputs of the calendar event projection: calendars of up to MaxRows     *)
(* rows over two listings, the row of position i dated 2024-01-i, with a   *)
(* currency string as price; a calendar with a missing date, one without a *)
(* price column, one with a numeric price column, the empty and the absent *)
(* calendar.  The calls take no listing or one of the two, and every cap   *)
(* up to MaxRows or the default.                                           *)

EventRow(listing, flag, date, price) ==
    [listing_id |-> IntCell(listing), date |-> date, available |-> Flag(flag), price |-> price]

EventCalendars ==
    {Table(<<"listing_id", "date", "available", "price">>,
           [i \in 1..Len(rs) |-> EventRow(rs[i][1], rs[i][2], DStr(2024, 1, i), Str(<<"$", "1", "0">>))])
        : rs \in SeqsUpTo({1, 2} \X {"t", "f"}, MaxRows)}
        \cup {Table(<<"listing_id", "date", "available", "price">>,
                    <<EventRow(1, "t", DStr(2024, 1, 1), Str(<<"$", "1", "0">>)), EventRow(1, "f", NaN, NaN)>>),
              Table(<<"listing_id", "date", "available", "price">>,
                    <<EventRow(1, "t", DStr(2024, 1, 1), Num(10))>>),
              Table(<<"listing_id", "date", "available">>,
                    <<[listing_id |-> IntCell(2), date |-> DStr(2024, 1, 1), available |-> Flag("f")]>>),
              NoneDF}

InitEvents ==
    /\ df = NoneDF /\ date_cols = <<>> /\ price_cols = <<>> /\ reviews_df = NoneDF /\ listings_df = NoneDF
    /\ disk = NoFiles /\ uploaded_files = <<>> /\ cache = {}
    /\ op = "" /\ args = <<>> /\ result = NoCall /\ prev = NoCall /\ calls = 0
    /\ calendar_df \in EventCalendars

NextEvents == CreateCalendarEvents

SpecEvents == InitEvents /\ [][NextEvents]_vars

---------------------------------------------------------------------------
(* C12: whenever create_calendar_events returns, it returns exactly        *)
(* min(n, max_events) events, n being the number of calendar rows, or of   *)
(* the rows of the listing when listing_id is given; event k is the event  *)
(* of the k-th of those rows in input order; a cap below n raises no       *)
(* error, the default cap is 1000, and a None or empty calendar gives the  *)
(* empty list.                                                             *)

\* the indices of the caller's rows the call is about, in input order
RowsAsked ==
    IF args[1] = NoneCell THEN [i \in 1..calendar_df.n |-> i]
    ELSE SelectSeq([i \in 1..calendar_df.n |-> i], LAMBDA i : calendar_df.col["listing_id"][i] = args[1])

\* the calendar date of a cell, converted or not
CivilOf(c) ==
    IF c.t = "dstr" THEN c.v
    ELSE LET d == CivilFromDays(c.v[1]) IN <<d.year, d.month, d.day>>

AtMost(a, b) == IF a < b THEN a ELSE b

C12_WitnessDefault ==
    /\ op = "create_calendar_events"
    /\ args = <<NoneCell, DefaultMaxEvents>>
    /\ result.kind = "value"
    /\ calendar_df.n = 2
    /\ Len(result.val) = 2

\* a cap below the number of rows: the list is cut, no fault
C12_WitnessTruncated ==
    /\ op = "create_calendar_events"
    /\ args = <<NoneCell, 1>>
    /\ result.kind = "value"
    /\ calendar_df.n = 2
    /\ Len(result.val) = 1
    /\ result.val[1].start = DStr(2024, 1, 1)

---------------------------------------------------------------------------
(* C13: create_calendar_events leaves the caller's calendar table          *)
(* unchanged, with or without a listing_id and with a table above or not   *)
(* above max_events: the same columns and the same cell values after the   *)
(* call as before it.                                                      *)

C13_CalendarUnchanged ==
    [][op' = "create_calendar_events" => calendar_df' = calendar_df]_vars

---------------------------------------------------------------------------
(* C11: every rate or percentage an analysis or view reports was computed  *)
(* over a denominator greater than 0, or is the substituted 0: no reported *)
(* percentage is the outcome of a division by zero, the price difference   *)
(* percentage of show_amenity_analysis over a 'without amenity' group of   *)
(* mean price 0 included.                                                  *)

\* the percentages held by the outcome of the last call
PercentagesReported ==
    IF result.kind # "value" THEN {}
    ELSE IF op = "show_amenity_analysis" THEN {row.PriceDifferencePct : row \in result.val}
    ELSE IF op = "analyze_copenhagen_occupancy"
         THEN {result.val.occupancy_rate, result.val.weekend_pct, result.val.weekday_pct}
                  \cup (IF result.val.availability_analysis = <<>> THEN {}
                        ELSE {result.val.availability_analysis.high_availability_pct,
                              result.val.availability_analysis.low_availability_pct})
    ELSE IF op = "analyze_city_market"
         THEN (IF result.val.calendar_analysis = <<>> THEN {}
               ELSE {result.val.calendar_analysis.basic_stats.availability_rate,
                     result.val.calendar_analysis.basic_stats.occupancy_rate})
    ELSE IF op = "show_main_dashboard" THEN {result.val.occupancy_rate}
    ELSE IF op = "show_occupancy_analysis"
         THEN (IF result.val = <<>> THEN {}
               ELSE {result.val.overall_occupancy_rate, result.val.prices.price_diff_pct})
    ELSE {}

C11_DenominatorsGuarded == \A r \in PercentagesReported : r.den > 0

---------------------------------------------------------------------------
(* C14: no analysis function changes the value of a column that exists in  *)
(* a caller's table before the call, it only adds columns; analyze_occupancy *)
(* on a table that has a 'date', 'month', 'year' or 'day_of_week' column   *)
(* beside the date column of the hint leaves that column's values as they  *)
(* were.  A date rewritten as the datetime of the same day counts as the   *)
(* same value.                                                             *)

SameValue(a, b) ==
    \/ a = b
    \/ a.t \in {"dstr", "ts"} /\ b.t \in {"dstr", "ts"} /\ CivilOf(a) = CivilOf(b)
    \/ IsNA(a) /\ IsNA(b)

KeepsColumns(old, new) ==
    old.none \/
        /\ ~new.none /\ new.n = old.n
        /\ \A c \in Range(old.cols) :
              HasCol(new, c) /\ \A i \in 1..old.n : SameValue(old.col[c][i], new.col[c][i])

C14_ExistingColumnsKept ==
    [][op' \in AnalysisOps =>
          /\ KeepsColumns(df, df')
          /\ KeepsColumns(listings_df, listings_df')
          /\ KeepsColumns(calendar_df, calendar_df')
          /\ KeepsColumns(reviews_df, reviews_df')]_vars

---------------------------------------------------------------------------
(* C15: a result of analyze_review_patterns holds a day-of-week table of   *)
(* exactly the 7 keys Monday..Sunday in that order, the count of a weekday *)
(* without a review is 0 and not a missing value, and each percentage is   *)
(* that day's count divided by the number of reviews times 100, to one     *)
(* decimal; the dow_occupancy of analyze_occupancy likewise holds 7 keys   *)
(* with 0 for a weekday without a booking.                                 *)

\* the rows of a converted table whose date falls on the weekday
RowsOn(t, day) ==
    Cardinality({i \in 1..t.n : t.col["date"][i].t = "ts" /\ dt_day_name(t.col["date"][i]) = Label(day)})

\* p tenths of a percent is count / total * 100 rounded to one decimal
IsPctOf(p, count, total) ==
    /\ p.t = "num"
    /\ 2 * (p.v * total - count * 1000) <= total
    /\ 2 * (count * 1000 - p.v * total) <= total

C15_ReviewsSevenDays ==
    /\ (op = "analyze_review_patterns" /\ result.kind = "value") =>
          /\ Len(result.val.reviews_by_day) = 7
          /\ Len(result.val.reviews_by_day_pct) = 7
          /\ \A i \in 1..7 :
                /\ result.val.reviews_by_day[i].key = Label(DayNames[i])
                /\ result.val.reviews_by_day[i].val = Num(RowsOn(reviews_df, DayNames[i]))
                /\ result.val.reviews_by_day_pct[i].key = Label(DayNames[i])
                /\ IsPctOf(result.val.reviews_by_day_pct[i].val, RowsOn(reviews_df, DayNames[i]), reviews_df.n)
    /\ (op = "analyze_occupancy" /\ result.kind = "value") =>
          /\ Len(result.val.dow_occupancy) = 7
          /\ \A i \in 1..7 :
                /\ result.val.dow_occupancy[i].key = Label(DayNames[i])
                /\ result.val.dow_occupancy[i].val = Num(RowsOn(df, DayNames[i]))

---------------------------------------------------------------------------
(* Inputs of the enhanced review analysis: a reviews table of one or two   *)
(* reviews, or none; listings of up to MaxListings rows holding one review *)
(* count column over the bin edges and their neighbours, a table holding   *)
(* both count columns and the monthly rate, a table without review         *)
(* columns, and no listings table.                                         *)

ReviewCounts == {Num(n) : n \in {0, 1, 2, 5, 6, 10, 11, 25, 26, 50, 51, 100, 101}} \cup {NaN}

ReviewListings ==
    {Table(<<"id", f>>, [i \in 1..Len(cs) |-> [k \in {"id", f} |-> IF k = "id" THEN IntCell(i) ELSE cs[i]]])
        : f \in {"number_of_reviews", "number_of_reviews_ltm"}, cs \in SeqsUpTo(ReviewCounts, MaxListings)}
        \cup {Table(<<"id", "number_of_reviews", "reviews_per_month", "number_of_reviews_ltm">>,
                    <<[id |-> IntCell(1), number_of_reviews |-> Num(7), reviews_per_month |-> Num(5),
                       number_of_reviews_ltm |-> Num(0)]>>),
              Table(<<"id">>, <<[id |-> IntCell(1)]>>),
              NoneDF}

SomeReviews ==
    {Table(<<"listing_id", "date">>, <<[listing_id |-> IntCell(1), date |-> DStr(2024, 1, 1)]>>),
     Table(<<"listing_id", "date">>, <<[listing_id |-> IntCell(1), date |-> DStr(2024, 6, 8)],
                                       [listing_id |-> IntCell(1), date |-> DStr(2025, 1, 5)]>>),
     Table(<<"listing_id">>, <<[listing_id |-> IntCell(1)]>>),
     NoneDF}

InitEnhanced ==
    /\ df = NoneDF /\ date_cols = <<>> /\ price_cols = <<>> /\ calendar_df = NoneDF
    /\ disk = NoFiles /\ uploaded_files = <<>> /\ cache = {}
    /\ op = "" /\ args = <<>> /\ result = NoCall /\ prev = NoCall /\ calls = 0
    /\ reviews_df \in SomeReviews
    /\ listings_df \in ReviewListings

NextEnhanced == AnalyzeEnhancedReviewPatterns \/ AnalyzeReviewPatterns

SpecEnhanced == InitEnhanced /\ [][NextEnhanced]_vars

---------------------------------------------------------------------------
(* C16: in a result of analyze_enhanced_review_patterns the distribution   *)
(* of number_of_reviews, and of number_of_reviews_ltm, counts a listing in *)
(* the bin '0' exactly when its value is 0, the values 1..5 in '1-5',      *)
(* 6..10 in '6-10', 11..25 in '11-25', 26..50 in '26-50', 51..100 in       *)
(* '51-100' and the values above 100 in '100+'; every non-missing          *)
(* non-negative value is counted in exactly one bin.                       *)

FeatureWithin(f, lo, hi) ==
    Cardinality({i \in 1..listings_df.n :
                    /\ listings_df.col[f][i] # NaN
                    /\ lo <= listings_df.col[f][i].v
                    /\ listings_df.col[f][i].v <= hi})

C16_ReviewBins ==
    (op = "analyze_enhanced_review_patterns" /\ result.kind = "value") =>
        \A f \in {"number_of_reviews", "number_of_reviews_ltm"} :
            (result.val.review_distributions # <<>> /\ f \in DOMAIN result.val.review_distributions) =>
                LET d == result.val.review_distributions[f]
                IN  /\ d["0"] = FeatureWithin(f, 0, 0)
                    /\ d["1-5"] = FeatureWithin(f, 1, 5)
                    /\ d["6-10"] = FeatureWithin(f, 6, 10)
                    /\ d["11-25"] = FeatureWithin(f, 11, 25)
                    /\ d["26-50"] = FeatureWithin(f, 26, 50)
                    /\ d["51-100"] = FeatureWithin(f, 51, 100)
                    /\ d["100+"] = FeatureWithin(f, 101, Inf)
                    /\ d["0"] + d["1-5"] + d["6-10"] + d["11-25"] + d["26-50"] + d["51-100"] + d["100+"]
                           = FeatureWithin(f, 0, Inf)

---------------------------------------------------------------------------
(* C17: a result of the review-pattern analysis holds the split of the     *)
(* reviews into weekend (Saturday, Sunday) and weekday (Monday..Friday)    *)
(* reviews, as counts and as percentages of all reviews, computed as the   *)
(* booked-day split of analyze_copenhagen_occupancy is.                    *)

ReviewOps == {"analyze_review_patterns", "analyze_enhanced_review_patterns"}

WeekendReviews == RowsOn(reviews_df, "Saturday") + RowsOn(reviews_df, "Sunday")

C17_ReviewWeekendSplit ==
    (op \in ReviewOps /\ result.kind = "value") =>
        /\ {"weekend_reviews", "weekday_reviews", "weekend_pct", "weekday_pct"} \subseteq DOMAIN result.val
        /\ result.val.weekend_reviews = WeekendReviews
        /\ result.val.weekend_reviews + result.val.weekday_reviews = reviews_df.n
        /\ result.val.weekend_pct = (IF reviews_df.n > 0 THEN Pct(WeekendReviews, reviews_df.n) ELSE Zero)
        /\ result.val.weekday_pct = (IF reviews_df.n > 0 THEN Pct(reviews_df.n - WeekendReviews, reviews_df.n) ELSE Zero)

---------------------------------------------------------------------------
(* C18: on a table with a price column and a datetime 'date' column        *)
(* analyze_revenue returns a result and no fault: total_revenue is the sum *)
(* of the price column, avg_revenue_per_booking its mean, revenue_by_month *)
(* has one row per (year, month) of 'date' with that month's price sum and *)
(* the first day of the month as date, and the monthly sums add up to      *)
(* total_revenue when every row has a date; analyze_pricing returns the    *)
(* monthly mean the same way.                                              *)

HasRevenueInput ==
    /\ price_cols # <<>> /\ HasCol(df, price_cols[1])
    /\ HasCol(df, "date") /\ IsDatetimeCol(df, "date")

\* the (year, month) pairs of the dated rows
MonthsOf(t) ==
    {<<dt_year(t.col["date"][i]).v, dt_month(t.col["date"][i]).v>> : i \in {j \in 1..t.n : t.col["date"][j].t = "ts"}}

PriceSumOf(t, c, ym) ==
    SumSeq(Values(Masked(t, c, LAMBDA i : /\ t.col["date"][i].t = "ts"
                                           /\ <<dt_year(t.col["date"][i]).v, dt_month(t.col["date"][i]).v>> = ym)))

C18_RevenueByMonth ==
    /\ (op = "analyze_revenue" /\ HasRevenueInput) =>
          /\ result.kind = "value"
          /\ result.val.total_revenue = SumSeq(Values(df.col[price_cols[1]]))
          /\ result.val.avg_revenue_per_booking = Mean(Values(df.col[price_cols[1]]))
          /\ result.val.revenue_by_month =
                 {[year |-> ym[1], month |-> ym[2], revenue |-> PriceSumOf(df, price_cols[1], ym),
                   date |-> Ts(DaysFromCivil(ym[1], ym[2], 1), 0)] : ym \in MonthsOf(df)}
    /\ (op = "analyze_pricing" /\ HasRevenueInput /\ date_cols # <<>>) =>
          /\ result.kind = "value"
          /\ result.val.avg_price = Mean(Values(df.col[price_cols[1]]))
          /\ {<<row.year, row.month>> : row \in result.val.price_trend} = MonthsOf(df)

---------------------------------------------------------------------------
(* Inputs of the booking loader: every list of up to MaxFiles uploaded     *)
(* files out of six: a file with two date-like columns and a repeated row, *)
(* a file with the same columns under their normalised names and a row     *)
(* equal to one of the first file after conversion, a file with an arrival *)
(* date and a total amount, a file without date-like or price-like         *)
(* columns, a file without rows, and a file of unparsable cells.  The      *)
(* column names of a file stay distinct when normalised.                   *)

MaxFiles == 2

UploadedFiles ==
    {[columns |-> <<<<"C", "h", "e", "c", "k", " ", "I", "n">>, <<"C", "h", "e", "c", "k", " ", "O", "u", "t">>, <<"P", "r", "i", "c", "e">>>>,
      rows |-> <<<<DStr(2024, 3, 5), DStr(2024, 3, 9), Str(<<"$", "1", "0">>)>>, <<DStr(2024, 3, 5), DStr(2024, 3, 9), Str(<<"$", "1", "0">>)>>>>],
     [columns |-> <<<<"c", "h", "e", "c", "k", "_", "i", "n">>, <<"c", "h", "e", "c", "k", "_", "o", "u", "t">>, <<"p", "r", "i", "c", "e">>>>,
      rows |-> <<<<DStr(2024, 3, 5), DStr(2024, 3, 9), IntCell(10)>>, <<DStr(2025, 3, 9), NaN, Str(<<"1", ",", "1", "0", "0">>)>>>>],
     [columns |-> <<<<"A", "r", "r", "i", "v", "a", "l", " ", "D", "a", "t", "e">>, <<"T", "o", "t", "a", "l", " ", "A", "m", "o", "u", "n", "t">>, <<"G", "u", "e", "s", "t">>>>,
      rows |-> <<<<DStr(2024, 6, 8), Str(<<"$", "1", ",", "0", "0", "0">>), Str(<<"A", "n", "n">>)>>>>],
     [columns |-> <<<<"G", "u", "e", "s", "t">>, <<"N", "i", "g", "h", "t", "s">>>>,
      rows |-> <<<<Str(<<"A", "n", "n">>), IntCell(1)>>, <<Str(<<"B", "o">>), IntCell(1)>>>>],
     [columns |-> <<<<"D", "a", "t", "e">>>>, rows |-> <<>>],
     [columns |-> <<<<"c", "h", "e", "c", "k", "_", "i", "n">>, <<"p", "r", "i", "c", "e">>>>,
      rows |-> <<<<Str(<<"x">>), Str(<<"x">>)>>, <<NaN, NaN>>>>]}

InitLoad ==
    /\ df = NoneDF /\ date_cols = <<>> /\ price_cols = <<>>
    /\ listings_df = NoneDF /\ calendar_df = NoneDF /\ reviews_df = NoneDF
    /\ disk = NoFiles /\ cache = {}
    /\ op = "" /\ args = <<>> /\ result = NoCall /\ prev = NoCall /\ calls = 0
    /\ uploaded_files \in SeqsUpTo(UploadedFiles, MaxFiles)

NextLoad == LoadBookingData

SpecLoad == InitLoad /\ [][NextLoad]_vars

\* the rows of a table, each as the function from its column names to its cells
RowsOf(t) == [i \in 1..t.n |-> [c \in Range(t.cols) |-> t.col[c][i]]]

\* the converted rows of the files, over the columns of the loaded table
RowsUploaded(files, cols) ==
    Range(ConcatRows([k \in 1..Len(files) |-> process_file(files[k])], cols))

---------------------------------------------------------------------------
(* C19: load_booking_data over a list of uploaded files returns one table  *)
(* holding the rows of all the files with the rows equal in every column   *)
(* removed: no two rows of the result are equal, the list [f, f] gives the *)
(* rows the list [f] gives, and the empty list gives (None, [], []).       *)

C19_RowsDeduplicated ==
    (op = "load_booking_data" /\ result.kind = "value") =>
        IF uploaded_files = <<>>
        THEN result.val = [df |-> NoneDF, date_columns |-> <<>>, price_columns |-> <<>>]
        ELSE LET t == result.val.df
                 rows == RowsOf(t)
             IN  /\ ~t.none
                 /\ \A i \in 1..t.n : \A j \in 1..t.n : rows[i] = rows[j] => i = j
                 /\ Range(rows) = RowsUploaded(uploaded_files, t.cols)
                 /\ (Len(uploaded_files) = 2 /\ uploaded_files[1] = uploaded_files[2]) =>
                        /\ Range(rows) = RowsUploaded(<<uploaded_files[1]>>, t.cols)
                        /\ t.n = Cardinality(Range(process_file(uploaded_files[1]).rows))

\* four uploaded rows, three of them equal after conversion: two rows are left
C19_Witness ==
    /\ op = "load_booking_data"
    /\ result.kind = "value"
    /\ Len(uploaded_files) = 2
    /\ uploaded_files[1].columns[1] = <<"C", "h", "e", "c", "k", " ", "I", "n">>
    /\ uploaded_files[2].columns[1] = <<"c", "h", "e", "c", "k", "_", "i", "n">>
    /\ Len(uploaded_files[2].columns) = 3
    /\ result.val.df.n = 2
    /\ result.val.df.col[<<"p", "r", "i", "c", "e">>] = <<Num(10), Num(1100)>>

\* the same file twice
C19_WitnessTwice ==
    /\ op = "load_booking_data"
    /\ result.kind = "value"
    /\ Len(uploaded_files) = 2
    /\ uploaded_files[1] = uploaded_files[2]
    /\ uploaded_files[1].columns = <<<<"G", "u", "e", "s", "t">>, <<"N", "i", "g", "h", "t", "s">>>>
    /\ result.val.df.n = 2

---------------------------------------------------------------------------
(* C20: in the table load_booking_data returns every column name is the    *)
(* uploaded name lower-cased with its spaces replaced by underscores; a    *)
(* column is in the date hints exactly when its normalised name contains   *)
(* 'date', 'check' or 'arrival', and in the price hints exactly when it    *)
(* contains 'price', 'revenue', 'amount' or 'total'; each hint list holds  *)
(* each such name once.                                                    *)

\* col is raw with every letter in lower case and every space as underscore
IsNormalOf(col, raw) ==
    /\ Len(col) = Len(raw)
    /\ \A i \in 1..Len(raw) :
          IF raw[i] = " " THEN col[i] = "_"
          ELSE /\ col[i] = raw[i] \/ \E k \in 1..26 : raw[i] = UpperCase[k] /\ col[i] = LowerCase[k]
               /\ col[i] \notin Range(UpperCase)

RawNames == UNION {Range(uploaded_files[k].columns) : k \in 1..Len(uploaded_files)}

HasWord(col, words) == \E w \in words : \E k \in 1..Len(col) : k + Len(w) - 1 <= Len(col) /\ \A i \in 1..Len(w) : col[k + i - 1] = w[i]

C20_ColumnHints ==
    (op = "load_booking_data" /\ result.kind = "value" /\ uploaded_files # <<>>) =>
        LET t == result.val.df
            dc == result.val.date_columns
            pc == result.val.price_columns
        IN  /\ \A raw \in RawNames : \E c \in Range(t.cols) : IsNormalOf(c, raw)
            /\ \A c \in Range(t.cols) : \E raw \in RawNames : IsNormalOf(c, raw)
            /\ Range(dc) = {c \in Range(t.cols) : HasWord(c, {<<"d", "a", "t", "e">>, <<"c", "h", "e", "c", "k">>, <<"a", "r", "r", "i", "v", "a", "l">>})}
            /\ Range(pc) = {c \in Range(t.cols) : HasWord(c, {<<"p", "r", "i", "c", "e">>, <<"r", "e", "v", "e", "n", "u", "e">>, <<"a", "m", "o", "u", "n", "t">>, <<"t", "o", "t", "a", "l">>})}
            /\ Len(dc) = Cardinality(Range(dc))
            /\ Len(pc) = Cardinality(Range(pc))

\* 'Arrival Date' and 'Total Amount' are the hints, 'Guest' is neither
C20_Witness ==
    /\ op = "load_booking_data"
    /\ result.kind = "value"
    /\ Len(uploaded_files) = 1
    /\ uploaded_files[1].columns = <<<<"A", "r", "r", "i", "v", "a", "l", " ", "D", "a", "t", "e">>, <<"T", "o", "t", "a", "l", " ", "A", "m", "o", "u", "n", "t">>, <<"G", "u", "e", "s", "t">>>>
    /\ result.val.df.cols = <<<<"a", "r", "r", "i", "v", "a", "l", "_", "d", "a", "t", "e">>, <<"t", "o", "t", "a", "l", "_", "a", "m", "o", "u", "n", "t">>, <<"g", "u", "e", "s", "t">>>>
    /\ result.val.date_columns = <<<<"a", "r", "r", "i", "v", "a", "l", "_", "d", "a", "t", "e">>>>
    /\ result.val.price_columns = <<<<"t", "o", "t", "a", "l", "_", "a", "m", "o", "u", "n", "t">>>>

---------------------------------------------------------------------------
(* C26: in a result of analyze_copenhagen_occupancy weekend_bookings is    *)
(* the number of booked rows on Saturday or Sunday and weekday_bookings    *)
(* the number on Monday..Friday; the two sum to booked_days when every     *)
(* booked row has a valid date; weekend_pct and weekday_pct are the counts *)
(* divided by booked_days times 100 when booked_days > 0 and both 0 when   *)
(* booked_days = 0.  As stated, the two percentages sum to 100 whenever    *)
(* booked_days > 0; as amended, they do so when moreover every booked row  *)
(* has a valid date.                                                       *)

WeekendDays == {"Saturday", "Sunday"}
WeekdayDays == {"Monday", "Tuesday", "Wednesday", "Thursday", "Friday"}

BookedIn(days) ==
    Cardinality({i \in 1..calendar_df.n :
                    /\ calendar_df.col["available"][i] = Flag("f")
                    /\ calendar_df.col["date"][i].t = "ts"
                    /\ DayNames[((calendar_df.col["date"][i].v[1] + 3) % 7) + 1] \in days})

BookedRowsDated ==
    \A i \in 1..calendar_df.n :
        calendar_df.col["available"][i] = Flag("f") => calendar_df.col["date"][i].t = "ts"

SumTo100(a, b) == a.den > 0 /\ b.den > 0 /\ a.num * b.den + b.num * a.den = 100 * a.den * b.den

WeekendCounts ==
    LET r == result.val
    IN  /\ r.weekend_bookings = BookedIn(WeekendDays)
        /\ r.weekday_bookings = BookedIn(WeekdayDays)
        /\ BookedRowsDated => r.weekend_bookings + r.weekday_bookings = r.booked_days
        /\ r.booked_days > 0 =>
              /\ RateEquals(r.weekend_pct, r.weekend_bookings, r.booked_days)
              /\ RateEquals(r.weekday_pct, r.weekday_bookings, r.booked_days)
        /\ r.booked_days = 0 => IsZeroRate(r.weekend_pct) /\ IsZeroRate(r.weekday_pct)

C26_WeekendShareAlways100 ==
    (op = "analyze_copenhagen_occupancy" /\ result.kind = "value") =>
        /\ WeekendCounts
        /\ result.val.booked_days > 0 => SumTo100(result.val.weekend_pct, result.val.weekday_pct)

C26_WeekendShare ==
    (op = "analyze_copenhagen_occupancy" /\ result.kind = "value") =>
        /\ WeekendCounts
        /\ (result.val.booked_days > 0 /\ BookedRowsDated) =>
              SumTo100(result.val.weekend_pct, result.val.weekday_pct)

\* 2024-06-08 is a Saturday and 2024-01-01 a Monday: one booking on each
C26_Witness ==
    /\ op = "analyze_copenhagen_occupancy"
    /\ result.kind = "value"
    /\ calendar_df.n = 2
    /\ calendar_df.col["date"][1] = Ts(DaysFromCivil(2024, 6, 8), 0)
    /\ calendar_df.col["date"][2] = Ts(DaysFromCivil(2024, 1, 1), 0)
    /\ result.val.booked_days = 2
    /\ result.val.weekend_bookings = 1
    /\ result.val.weekday_bookings = 1
    /\ result.val.weekend_pct = [num |-> 100, den |-> 2]

\* a booked row without a date is counted in booked_days only
C26_WitnessUndated ==
    /\ op = "analyze_copenhagen_occupancy"
    /\ result.kind = "value"
    /\ calendar_df.n = 2
    /\ calendar_df.col["date"][1] = Ts(DaysFromCivil(2024, 6, 8), 0)
    /\ IsNA(calendar_df.col["date"][2])
    /\ result.val.booked_days = 2
    /\ result.val.weekend_bookings = 1
    /\ result.val.weekday_bookings = 0

---------------------------------------------------------------------------
(* C27: in a result of analyze_copenhagen_occupancy monthly_occupancy has  *)
(* one row per distinct (year, month) with a booked row and                *)
(* quarterly_occupancy one row per distinct (year, quarter); booked rows   *)
(* of one month number in different years are counted in different rows.   *)
(* As stated, the booked_days of the rows of each table sum to the overall *)
(* booked_days; as amended, they sum to the number of booked rows that     *)
(* have a valid date.                                                      *)

DatedBooked ==
    {i \in 1..calendar_df.n : calendar_df.col["available"][i] = Flag("f") /\ calendar_df.col["date"][i].t = "ts"}

YearOf(i) == CivilFromDays(calendar_df.col["date"][i].v[1]).year
MonthOf(i) == CivilFromDays(calendar_df.col["date"][i].v[1]).month
QuarterOf(i) == ((MonthOf(i) - 1) \div 3) + 1

RECURSIVE SumBookedDays(_)
SumBookedDays(rows) ==
    IF rows = {} THEN 0
    ELSE LET r == CHOOSE x \in rows : TRUE IN r.booked_days + SumBookedDays(rows \ {r})

PeriodRows ==
    LET monthly == result.val.monthly_occupancy
        quarterly == result.val.quarterly_occupancy
    IN  /\ {<<r.year, r.month>> : r \in monthly} = {<<YearOf(i), MonthOf(i)>> : i \in DatedBooked}
        /\ Cardinality(monthly) = Cardinality({<<YearOf(i), MonthOf(i)>> : i \in DatedBooked})
        /\ \A r \in monthly :
              r.booked_days = Cardinality({i \in DatedBooked : YearOf(i) = r.year /\ MonthOf(i) = r.month})
        /\ {<<r.year, r.quarter>> : r \in quarterly} = {<<YearOf(i), QuarterOf(i)>> : i \in DatedBooked}
        /\ Cardinality(quarterly) = Cardinality({<<YearOf(i), QuarterOf(i)>> : i \in DatedBooked})
        /\ \A r \in quarterly :
              r.booked_days = Cardinality({i \in DatedBooked : YearOf(i) = r.year /\ QuarterOf(i) = r.quarter})

C27_PeriodsSumToBooked ==
    (op = "analyze_copenhagen_occupancy" /\ result.kind = "value") =>
        /\ PeriodRows
        /\ SumBookedDays(result.val.monthly_occupancy) = result.val.booked_days
        /\ SumBookedDays(result.val.quarterly_occupancy) = result.val.booked_days

C27_PeriodsSumToDated ==
    (op = "analyze_copenhagen_occupancy" /\ result.kind = "value") =>
        /\ PeriodRows
        /\ SumBookedDays(result.val.monthly_occupancy) = Cardinality(DatedBooked)
        /\ SumBookedDays(result.val.quarterly_occupancy) = Cardinality(DatedBooked)

\* January 2024 and January 2025, one booked row each
C27_Witness ==
    /\ op = "analyze_copenhagen_occupancy"
    /\ result.kind = "value"
    /\ calendar_df.n = 2
    /\ calendar_df.col["date"][1] = Ts(DaysFromCivil(2024, 1, 1), 0)
    /\ calendar_df.col["date"][2] = Ts(DaysFromCivil(2025, 1, 5), 0)
    /\ result.val.booked_days = 2
    /\ Cardinality(result.val.monthly_occupancy) = 2
    /\ Cardinality(result.val.quarterly_occupancy) = 2
    /\ \A r \in result.val.monthly_occupancy : r.month = 1 /\ r.booked_days = 1

---------------------------------------------------------------------------
(* C29: in every result of analyze_copenhagen_occupancy and in the         *)
(* basic_stats of analyze_city_market booked_days + available_days <=      *)
(* total_days, with equality exactly when every row's available flag is    *)
(* 't' or 'f'; a row with another or a missing flag is counted in          *)
(* total_days only, so occupancy_rate + availability_rate <= 100.          *)

FlagsKnown ==
    \A i \in 1..calendar_df.n : calendar_df.col["available"][i] \in {Flag("t"), Flag("f")}

DaysAddUp(s) ==
    /\ s.total_days = calendar_df.n
    /\ s.booked_days + s.available_days <= s.total_days
    /\ (s.booked_days + s.available_days = s.total_days) <=> FlagsKnown
    /\ s.total_days - (s.booked_days + s.available_days)
          = Cardinality({i \in 1..calendar_df.n : calendar_df.col["available"][i] \notin {Flag("t"), Flag("f")}})

AtMost100(a, b) == a.den > 0 /\ b.den > 0 /\ a.num * b.den + b.num * a.den <= 100 * a.den * b.den

C29_DaysWithinTotal ==
    /\ (op = "analyze_copenhagen_occupancy" /\ result.kind = "value") => DaysAddUp(result.val)
    /\ (op = "analyze_city_market" /\ result.kind = "value" /\ result.val.calendar_analysis # <<>>) =>
          /\ DaysAddUp(result.val.calendar_analysis.basic_stats)
          /\ AtMost100(result.val.calendar_analysis.basic_stats.occupancy_rate,
                       result.val.calendar_analysis.basic_stats.availability_rate)

\* one row flagged 'x' and one flagged 'f': booked 1, available 0, total 2
C29_Witness ==
    /\ op = "analyze_city_market"
    /\ result.kind = "value"
    /\ calendar_df.n = 2
    /\ result.val.calendar_analysis # <<>>
    /\ calendar_df.col["available"] = <<Flag("x"), Flag("f")>>
    /\ result.val.calendar_analysis.basic_stats.total_days = 2
    /\ result.val.calendar_analysis.basic_stats.booked_days = 1
    /\ result.val.calendar_analysis.basic_stats.available_days = 0
    /\ result.val.calendar_analysis.basic_stats.occupancy_rate = [num |-> 100, den |-> 2]

\* a missing flag in the occupancy analysis
C29_WitnessMissing ==
    /\ op = "analyze_copenhagen_occupancy"
    /\ result.kind = "value"
    /\ calendar_df.n = 2
    /\ calendar_df.col["available"] = <<Flag("t"), NaN>>
    /\ result.val.booked_days = 0
    /\ result.val.available_days = 1
    /\ result.val.total_days = 2

---------------------------------------------------------------------------
(* C24: the booking analyses are independent of call order: on an uploaded *)
(* table with the columns 'checkin' and 'price' and both hints present,    *)
(* analyze_revenue and analyze_pricing give the outcome they give on the   *)
(* table as uploaded, whether or not analyze_occupancy has been called on  *)
(* it before.                                                              *)

\* the uploaded tables the current table can have come from
UploadedAs(t) ==
    /\ t \in BookingTables
    /\ t.cols = <<"checkin", "price">>
    /\ df \in {t, analyze_occupancy(t, date_cols).df}

C24_CallOrderIndependent ==
    \A t \in BookingTables :
        (UploadedAs(t) /\ date_cols # <<>> /\ price_cols # <<>>) =>
            /\ op = "analyze_revenue" => result = analyze_revenue(t, price_cols)
            /\ op = "analyze_pricing" => result = analyze_pricing(t, price_cols, date_cols)

---------------------------------------------------------------------------
(* C23: two runs on identical uploaded files give identical results: the   *)
(* order in which load_booking_data lists the date-like and the price-like *)
(* columns, and with it the column listed first, is the one every other    *)
(* run on the same files gives.                                            *)

C23_HintOrderSameInEveryRun ==
    (op = "load_booking_data" /\ result.kind = "value") =>
        \A other \in load_booking_data(uploaded_files) :
            /\ other.val.date_columns = result.val.date_columns
            /\ other.val.price_columns = result.val.price_columns

---------------------------------------------------------------------------
(* Inputs of the file loaders: every working directory in which            *)
(* listings.csv is absent, unparsable or a table with a price column and   *)
(* an empty column, listings.csv.gz absent or a table without a price      *)
(* column, calendar.csv.gz absent, unparsable or a two-day calendar with   *)
(* an empty adjusted_price column, reviews.csv absent, unparsable or a     *)
(* table, and reviews.csv.gz absent or another table.                      *)

DiskListings ==
    Table(<<"id", "price", "license">>, <<[id |-> IntCell(1), price |-> Str(<<"$", "1", "0">>), license |-> NaN]>>)

DiskListingsGz ==
    Table(<<"id", "availability_365">>, <<[id |-> IntCell(2), availability_365 |-> IntCell(0)]>>)

DiskCalendar ==
    Table(<<"listing_id", "date", "available", "price", "adjusted_price", "minimum_nights", "maximum_nights">>,
          [i \in 1..2 |->
              [listing_id |-> IntCell(1), date |-> DStr(2024, 1, i), available |-> IF i = 1 THEN Flag("f") ELSE Flag("t"),
               price |-> Str(<<"$", "1", "0">>), adjusted_price |-> NaN,
               minimum_nights |-> IntCell(1), maximum_nights |-> IntCell(30)]])

DiskReviews == Table(<<"listing_id", "date">>, <<[listing_id |-> IntCell(1), date |-> DStr(2024, 1, 1)]>>)

DiskReviewsGz == Table(<<"listing_id", "date">>, <<[listing_id |-> IntCell(1), date |-> DStr(2024, 6, 8)]>>)

Disks ==
    {[f \in Files |->
         IF f = "listings.csv" THEN l
         ELSE IF f = "listings.csv.gz" THEN lz
         ELSE IF f = "calendar.csv.gz" THEN c
         ELSE IF f = "reviews.csv" THEN r
         ELSE rz]
        : l \in {Absent, Corrupt, OnDisk(DiskListings)},
          lz \in {Absent, OnDisk(DiskListingsGz)},
          c \in {Absent, Corrupt, OnDisk(DiskCalendar)},
          r \in {Absent, Corrupt, OnDisk(DiskReviews)},
          rz \in {Absent, OnDisk(DiskReviewsGz)}}

InitFiles ==
    /\ df = NoneDF /\ date_cols = <<>> /\ price_cols = <<>>
    /\ listings_df = NoneDF /\ calendar_df = NoneDF /\ reviews_df = NoneDF
    /\ uploaded_files = <<>> /\ cache = {}
    /\ op = "" /\ args = <<>> /\ result = NoCall /\ prev = NoCall /\ calls = 0
    /\ disk \in Disks

NextFiles ==
    \/ LoadCityData
    \/ LoadData
    \/ LoadFullCalendarData
    \/ Main

SpecFiles == InitFiles /\ [][NextFiles]_vars

---------------------------------------------------------------------------
(* Inputs of the cache: the working directories without the compressed     *)
(* listings and reviews files and without an unparsable listings or        *)
(* reviews file, and the empty list of uploaded files or one file.         *)
(* Between the calls the files change to any other such directory, and the *)
(* uploaded files to another list.                                         *)

CacheDisks ==
    {d \in Disks : /\ d["listings.csv.gz"] = Absent /\ d["reviews.csv.gz"] = Absent
                   /\ d["listings.csv"] # Corrupt /\ d["reviews.csv"] # Corrupt}

Uploads == {<<>>} \cup {<<f>> : f \in {g \in UploadedFiles : Len(g.columns) = 1}}

\* the files of the working directory are created, replaced or deleted
ChangeFiles ==
    /\ disk' \in CacheDisks \ {disk}
    /\ UNCHANGED <<uploaded_files, cache, df, date_cols, price_cols, listings_df, calendar_df, reviews_df,
                   op, args, result, prev, calls>>

\* the user uploads other files
ChangeUpload ==
    /\ uploaded_files' \in Uploads \ {uploaded_files}
    /\ UNCHANGED <<disk, cache, df, date_cols, price_cols, listings_df, calendar_df, reviews_df,
                   op, args, result, prev, calls>>

InitCache ==
    /\ df = NoneDF /\ date_cols = <<>> /\ price_cols = <<>>
    /\ listings_df = NoneDF /\ calendar_df = NoneDF /\ reviews_df = NoneDF
    /\ cache = {}
    /\ op = "" /\ args = <<>> /\ result = NoCall /\ prev = NoCall /\ calls = 0
    /\ disk \in CacheDisks
    /\ uploaded_files \in Uploads

NextCache ==
    \/ LoadCityData
    \/ LoadData
    \/ LoadFullCalendarData
    \/ LoadBookingData
    \/ ChangeFiles
    \/ ChangeUpload

SpecCache == InitCache /\ [][NextCache]_vars

---------------------------------------------------------------------------
(* C21: when neither listings file exists load_city_data and load_data     *)
(* return (None, None, None) whatever other files exist, and main calls no *)
(* view; when a listings file exists and the files that exist can be read, *)
(* the listings table is returned, with None for the calendar when         *)
(* calendar.csv.gz does not exist and None for the reviews when neither    *)
(* reviews file exists.                                                    *)

NoListingsFile == ~Exists(disk, "listings.csv") /\ ~Exists(disk, "listings.csv.gz")
NoCalendarFile == ~Exists(disk, "calendar.csv.gz")
NoReviewsFile == ~Exists(disk, "reviews.csv") /\ ~Exists(disk, "reviews.csv.gz")
FilesReadable == \A f \in Files : disk[f].state # "corrupt"

\* the table of the listings file that is read
ListingsOnDisk == disk[IF Exists(disk, "listings.csv") THEN "listings.csv" ELSE "listings.csv.gz"].table

C21_WitnessListingsOnly ==
    /\ op = "load_data"
    /\ disk["listings.csv"] = Absent
    /\ disk["listings.csv.gz"] = OnDisk(DiskListingsGz)
    /\ NoCalendarFile /\ NoReviewsFile
    /\ result = Value(<<DiskListingsGz, NoneDF, NoneDF>>)

\* main without a listings file
C21_WitnessMainStops ==
    /\ op = "main"
    /\ NoListingsFile
    /\ disk["calendar.csv.gz"] = OnDisk(DiskCalendar)
    /\ result.kind = "value"
    /\ result.val.view = ""

---------------------------------------------------------------------------
(* C30: only a failure to load the listings table is a whole-load failure: *)
(* when the listings file that is read can be parsed, load_city_data and   *)
(* load_data return the listings table, with None for a calendar or        *)
(* reviews table whose file is absent or cannot be read.                   *)

ListingsReadable ==
    ~NoListingsFile /\ disk[IF Exists(disk, "listings.csv") THEN "listings.csv" ELSE "listings.csv.gz"].state = "file"

C30_OptionalReadFailure ==
    (op \in {"load_city_data", "load_data"} /\ ListingsReadable) =>
        /\ result.kind = "value"
        /\ ~result.val[1].none
        /\ disk["calendar.csv.gz"].state = "corrupt" => result.val[IF op = "load_data" THEN 3 ELSE 2].none
        /\ disk["reviews.csv"].state = "corrupt" => result.val[IF op = "load_data" THEN 2 ELSE 3].none

---------------------------------------------------------------------------
(* C22: within one process, once a cached loader (load_city_data,          *)
(* load_full_calendar_data, load_data, load_booking_data with the same     *)
(* uploaded files) has been called, every later call with the same inputs  *)
(* returns the outcome of the first call, whatever has become of the files *)
(* on disk since, and no stored outcome is ever dropped or replaced.       *)

C22_CachedForever ==
    [][/\ cache \subseteq cache'
       /\ \A e \in cache :
             (calls' = calls + 1 /\ op' = e.key[1] /\ args' = e.key[2]) => result' = e.out]_vars

\* the second call returns the tables of files that have changed since
C22_Witness ==
    /\ op = "load_data"
    /\ calls = 2
    /\ prev = result
    /\ result = Value(<<DiskListings, NoneDF, NoneDF>>)
    /\ disk["listings.csv"] = Absent
    /\ disk["calendar.csv.gz"] = OnDisk(DiskCalendar)
    /\ load_data(disk) # result

\* a failed first load stays the answer after the files were created
C22_WitnessCreated ==
    /\ op = "load_city_data"
    /\ calls = 2
    /\ prev = result
    /\ result = Value(<<NoneDF, NoneDF, NoneDF>>)
    /\ disk["listings.csv"] = OnDisk(DiskListings)

\* the uploaded files: another list misses, the first list hits again
C22_WitnessUpload ==
    /\ op = "load_booking_data"
    /\ calls = 2
    /\ uploaded_files # <<>>
    /\ Cardinality(cache) = 2

---------------------------------------------------------------------------
(* C28: in main, when the selected sidebar option is locked the analysis   *)
(* shown is the first option that is not locked, and no view is called     *)
(* without its data: show_occupancy_analysis not without a calendar,       *)
(* show_price_analysis and show_price_recommendations not without a price  *)
(* column.                                                                 *)

IsLocked(option, has_calendar, has_price_data) ==
    \/ option = "Occupancy Analysis" /\ ~has_calendar
    \/ option \in {"Price Analysis", "Price Recommendations"} /\ ~has_price_data

FirstAvailable(has_calendar, has_price_data) ==
    mvp_options[CHOOSE i \in 1..Len(mvp_options) :
                    /\ ~IsLocked(mvp_options[i], has_calendar, has_price_data)
                    /\ \A j \in 1..(i - 1) : IsLocked(mvp_options[j], has_calendar, has_price_data)]

C28_LockedOptionFallsBack ==
    (op = "main" /\ result.kind = "value" /\ ~result.val.listings.none) =>
        LET r == result.val
        IN  /\ r.has_calendar = ~r.calendar.none
            /\ r.has_price_data = HasCol(r.listings, "price")
            /\ r.locked = IsLocked(mvp_options[args[1]], r.has_calendar, r.has_price_data)
            /\ r.locked =>
                  /\ r.analysis_type = FirstAvailable(r.has_calendar, r.has_price_data)
                  /\ r.view # ""
            /\ r.view = "show_occupancy_analysis" => ~r.calendar.none
            /\ r.view \in {"show_price_analysis", "show_price_recommendations"} => HasCol(r.listings, "price")

---------------------------------------------------------------------------
(* The maps of the geographic analysis (airbnb_host_advisor.py 1275-1471). *)
(* A table of listings is held here by the number of its rows of each      *)
(* kind: rows with every value, rows without a coordinate, rows without a  *)
(* cleaned price and rows without a rating; price_clean says whether the   *)
(* table has the column price_clean at all.                                *)

SampleSize == 1000
MaxOver == 2
MaxMissing == 1

RowKinds == {"full", "nocoord", "noprice", "norating"}

GeoLen(t) == t.count["full"] + t.count["nocoord"] + t.count["noprice"] + t.count["norating"]

(* df.sample(n=1000, random_state=42): 1000 of the rows; which rows the    *)
(* generator keeps is not modelled, every choice of the rows left out is   *)
(* an outcome.                                                             *)
sample(t, size) ==
    {[t EXCEPT !.count = [k \in RowKinds |-> t.count[k] - out[k]]] :
        out \in {o \in [RowKinds -> 0..(GeoLen(t) - size)] :
                    /\ \A k \in RowKinds : o[k] <= t.count[k]
                    /\ o["full"] + o["nocoord"] + o["noprice"] + o["norating"] = GeoLen(t) - size}}

df_sample(t) == IF GeoLen(t) > SampleSize THEN sample(t, SampleSize) ELSE {t}

dropna_subset(t, kinds) == [t EXCEPT !.count = [k \in RowKinds |-> IF k \in kinds THEN 0 ELSE t.count[k]]]

Figure(rows, points) == Value([rows |-> rows, points |-> points])

(* create_interactive_map: df.iterrows() visits every row of the table it  *)
(* is given and adds a marker for each row with both coordinates. The      *)
(* popup formats row.get('price_clean', 'N/A') with ',.0f', a ValueError   *)
(* for the string 'N/A'; the centre of a table without a located row is    *)
(* NaN, which the map may reject.                                          *)
create_interactive_map(t) ==
    LET located == GeoLen(t) - t.count["nocoord"] IN
    IF located = 0 THEN {Fault("ValueError"), Figure(GeoLen(t), 0)}
    ELSE IF ~t.price_clean THEN {Fault("ValueError")}
    ELSE {Figure(GeoLen(t), located)}

create_price_heatmap(t) ==
    {IF ~s.price_clean THEN Figure(GeoLen(s), 0)
     ELSE Figure(GeoLen(s), GeoLen(dropna_subset(s, {"nocoord", "noprice"}))) : s \in df_sample(t)}

create_rating_map(t) ==
    {Figure(GeoLen(s), GeoLen(dropna_subset(s, {"nocoord", "norating"}))) : s \in df_sample(t)}

CreateInteractiveMap ==
    /\ \E r \in create_interactive_map(listings_df) : Record("create_interactive_map", r)
    /\ UNCHANGED <<disk, uploaded_files, cache, df, date_cols, price_cols, listings_df, calendar_df, reviews_df>>

CreatePriceHeatmap ==
    /\ \E r \in create_price_heatmap(listings_df) : Record("create_price_heatmap", r)
    /\ UNCHANGED <<disk, uploaded_files, cache, df, date_cols, price_cols, listings_df, calendar_df, reviews_df>>

CreateRatingMap ==
    /\ \E r \in create_rating_map(listings_df) : Record("create_rating_map", r)
    /\ UNCHANGED <<disk, uploaded_files, cache, df, date_cols, price_cols, listings_df, calendar_df, reviews_df>>

(* Inputs: tables of a few rows and tables of about SampleSize rows, up to *)
(* MaxOver rows more, with up to MaxMissing rows of each incomplete kind.  *)
GeoRowCounts == 0..MaxOver \cup ((SampleSize - 1)..(SampleSize + MaxOver))

GeoCounts(n, a, b, c) ==
    [k \in RowKinds |-> CASE k = "nocoord" -> a [] k = "noprice" -> b [] k = "norating" -> c
                         [] OTHER -> n - a - b - c]

GeoTables ==
    {[count |-> GeoCounts(x[1], x[2], x[3], x[4]), price_clean |-> p] :
        x \in {y \in GeoRowCounts \X (0..MaxMissing) \X (0..MaxMissing) \X (0..MaxMissing) :
                  y[2] + y[3] + y[4] <= y[1]},
        p \in BOOLEAN}

InitMaps ==
    /\ df = NoneDF /\ date_cols = <<>> /\ price_cols = <<>>
    /\ calendar_df = NoneDF /\ reviews_df = NoneDF
    /\ disk = NoFiles /\ uploaded_files = <<>> /\ cache = {}
    /\ op = "" /\ args = <<>> /\ result = NoCall /\ prev = NoCall /\ calls = 0
    /\ listings_df \in {t \in GeoTables : ~t.price_clean => t.count["noprice"] = 0}

NextMaps ==
    \/ CreateInteractiveMap
    \/ CreatePriceHeatmap
    \/ CreateRatingMap

SpecMaps == InitMaps /\ [][NextMaps]_vars

MapOps == {"create_interactive_map", "create_price_heatmap", "create_rating_map"}

(* C25: each of create_interactive_map, create_price_heatmap and           *)
(* create_rating_map processes at most 1000 rows: of a table of more than  *)
(* 1000 rows it processes a sample of 1000, a table of at most 1000 rows   *)
(* it processes whole, and it creates no more markers or points than that. *)
C25_AtMostSampleSizeRows ==
    (op \in MapOps /\ result.kind = "value") =>
        /\ result.val.rows <= SampleSize
        /\ result.val.points <= SampleSize
        /\ GeoLen(listings_df) > SampleSize => result.val.rows = SampleSize
        /\ GeoLen(listings_df) <= SampleSize => result.val.rows = GeoLen(listings_df)

====
